---- MODULE Spec2Model ----
(***************************************************************************)
(* The SOCKS5 engine of src/socks.py (class SOCKS5Proxy, with ProxyStats   *)
(* and ConnectionStats): the accept thread, one handler thread per         *)
(* accepted client, and the thread that calls stop().  Threads interleave  *)
(* between Python statements that touch shared state; the bodies of the    *)
(* ProxyStats methods are single steps, and so is each stage of the        *)
(* negotiation, which reads and writes only the handler's own sockets.     *)
(* No statement inside the try block of _handle_connection raises (the     *)
(* helpers catch every exception), so its except clause is never entered.  *)
(***************************************************************************)
EXTENDS Integers, Sequences, FiniteSets, TLC

\* ------------------------------------------------------------------ bounds
\* clients that connect to the listener during a run
MaxClients == 2
\* SOCKS5Proxy.max_connections of the modelled engine
max_connections == 1
\* bytes a relay forwards in each direction
MaxBytes == 1
\* calls of stop() during a run
MaxStops == 2
\* bytes one recv of the relay returns at most
MaxChunk == 2
\* bytes a relay reads in one direction where reads are of several bytes
MaxRelayBytes == 3
\* one-second polls in five minutes (the timeout set at lines 516-517)
InactivityTicks == 300
\* CompleteSSHTunnelSOCKS5Manager.max_failure_count
max_failure_count == 5
\* CompleteSSHTunnelSOCKS5Manager.health_check_interval, in seconds
health_check_interval == 30
\* the failure_count up to which a tunnel is followed
MaxFailureCount == 7
\* the failing ticks in a row up to which the monitor is followed
MaxConsecutive == 6
MaxMonitors == 3
MaxArgs == 2

ConnIds == 0 .. (MaxClients - 1)
\* the thread that calls stop(); handler threads are named by their conn_id
StopT == MaxClients
Threads == 0 .. MaxClients

\* ------------------------------------------------------- protocol numbers
NO_AUTH == 0
USERNAME_PASSWORD == 2
NO_ACCEPTABLE == 255
CONNECT == 1
ATYP_IPV4 == 1
ATYP_DOMAIN == 3
ATYP_IPV6 == 4
SUCCESS == 0
GENERAL_FAILURE == 1
HOST_UNREACHABLE == 4
CONNECTION_REFUSED == 5
COMMAND_NOT_SUPPORTED == 7
ADDRESS_TYPE_NOT_SUPPORTED == 8

\* the credentials the engine is configured with ("u", "p")
username == <<117>>
password == <<112>>

\* ------------------------------------------------------------ byte strings
Min(a, b) == IF a < b THEN a ELSE b
Max(a, b) == IF a > b THEN a ELSE b

\* Python's data[a:b] on a byte string (0-based, clipped to the length)
Slice(data, a, b) == SubSeq(data, a + 1, Min(b, Len(data)))

\* bytes.decode('utf-8') succeeds: on the byte strings drawn here every byte
\* below 0x80 decodes to itself and a byte 0xFF cannot be decoded
Utf8Ok(bs) == \A i \in 1 .. Len(bs) : bs[i] < 128

\* struct.unpack('!H', two bytes)
Port(hi, lo) == hi * 256 + lo

Elems(s) == {s[i] : i \in 1 .. Len(s)}

\* the sequence s without its element x
Without(s, x) == SelectSeq(s, LAMBDA y : y # x)

\* ----------------------------------------------------------- the greeting
GreetingFail == [ok |-> FALSE, methods |-> <<>>]

\* _handle_handshake, lines 351-359: the offered methods, or a failure
ParseGreeting(data) ==
    IF Len(data) < 3 THEN GreetingFail
    ELSE IF data[1] # 5 THEN GreetingFail
    ELSE LET nmethods == data[2]
             body == Slice(data, 2, 2 + nmethods)
         IN  IF Len(body) # nmethods THEN GreetingFail
             ELSE [ok |-> TRUE, methods |-> body]

\* variant: NO_AUTH is taken whenever it is offered
ChooseMethodNoAuthFirst(auth, methods) ==
    IF NO_AUTH \in Elems(methods) THEN NO_AUTH
    ELSE IF auth /\ USERNAME_PASSWORD \in Elems(methods) THEN USERNAME_PASSWORD
    ELSE NO_ACCEPTABLE

\* _handle_handshake, lines 361-371
ChooseMethod(auth, methods) ==
    IF auth
    THEN IF USERNAME_PASSWORD \in Elems(methods) THEN USERNAME_PASSWORD
         ELSE NO_ACCEPTABLE
    ELSE IF NO_AUTH \in Elems(methods) THEN NO_AUTH
         ELSE NO_ACCEPTABLE

\* ---------------------------------------------------- username / password
AuthFail == [ok |-> FALSE, username |-> <<>>, password |-> <<>>]

\* _handle_username_password_auth, lines 394-412
ParseAuth(data) ==
    IF Len(data) < 2 THEN AuthFail
    ELSE IF data[1] # 1 THEN AuthFail
    ELSE LET username_len == data[2] IN
         IF Len(data) < 2 + username_len + 1 THEN AuthFail
         ELSE LET uname == Slice(data, 2, 2 + username_len)
                  password_len == data[2 + username_len + 1]
              IN  IF ~Utf8Ok(uname) THEN AuthFail
                  ELSE IF Len(data) < 2 + username_len + 1 + password_len
                       THEN AuthFail
                  ELSE LET passwd == Slice(data, 2 + username_len + 1,
                                           2 + username_len + 1 + password_len)
                       IN  IF ~Utf8Ok(passwd) THEN AuthFail
                           ELSE [ok |-> TRUE, username |-> uname,
                                 password |-> passwd]

\* variant: only the user name is compared
AuthSuccessUserOnly(cred) == cred.username = username

\* _handle_username_password_auth, line 415
AuthSuccess(cred) == cred.username = username /\ cred.password = password

\* ------------------------------------------------------------ the request
NoAddr == [atyp |-> "none", host |-> <<>>]
ReqErr(code) == [ok |-> FALSE, code |-> code, addr |-> NoAddr, port |-> 0]
ReqOk(addr, port) == [ok |-> TRUE, code |-> SUCCESS, addr |-> addr, port |-> port]

\* _handle_request, lines 444-466: the destination by address type
ParseAddress(data) ==
    IF data[4] = ATYP_IPV4 THEN
         IF Len(data) < 10 THEN ReqErr(GENERAL_FAILURE)
         ELSE ReqOk([atyp |-> "ipv4", host |-> Slice(data, 4, 8)],
                    Port(data[9], data[10]))
    ELSE IF data[4] = ATYP_DOMAIN THEN
         IF Len(data) < 5 THEN ReqErr(GENERAL_FAILURE)
         ELSE LET domain_len == data[5] IN
              IF Len(data) < 5 + domain_len + 2 THEN ReqErr(GENERAL_FAILURE)
              ELSE IF ~Utf8Ok(Slice(data, 5, 5 + domain_len))
                   THEN ReqErr(GENERAL_FAILURE)
              ELSE ReqOk([atyp |-> "domain", host |-> Slice(data, 5, 5 + domain_len)],
                         Port(data[5 + domain_len + 1], data[5 + domain_len + 2]))
    ELSE IF data[4] = ATYP_IPV6 THEN
         IF Len(data) < 22 THEN ReqErr(GENERAL_FAILURE)
         ELSE ReqOk([atyp |-> "ipv6", host |-> Slice(data, 4, 20)],
                    Port(data[21], data[22]))
    ELSE ReqErr(ADDRESS_TYPE_NOT_SUPPORTED)

\* variant: the command byte is not examined
ParseRequestAnyCommand(data) ==
    IF Len(data) < 4 THEN ReqErr(GENERAL_FAILURE)
    ELSE IF data[1] # 5 THEN ReqErr(GENERAL_FAILURE)
    ELSE ParseAddress(data)

\* _handle_request, lines 431-466: the destination, or the reply code of
\* the exception raised
ParseRequest(data) ==
    IF Len(data) < 4 THEN ReqErr(GENERAL_FAILURE)
    ELSE IF data[1] # 5 THEN ReqErr(GENERAL_FAILURE)
    ELSE IF data[2] # CONNECT THEN ReqErr(COMMAND_NOT_SUPPORTED)
    ELSE ParseAddress(data)

\* what target_socket.connect can do
DialResults == {"ok", "gaierror", "timeout", "refused", "other"}

\* an AF_INET socket cannot resolve an IPv6 literal: connect raises gaierror
DialResultsFor(addr) == IF addr.atyp = "ipv6" THEN {"gaierror"} ELSE DialResults

\* variant: every failed dial is a general failure
DialCodeAllGeneral(result) ==
    IF result = "ok" THEN SUCCESS ELSE GENERAL_FAILURE

\* _handle_request, lines 477-484 and 503-505: the reply code of a dial
DialCode(result) ==
    CASE result = "ok" -> SUCCESS
      [] result = "gaierror" -> HOST_UNREACHABLE
      [] result = "timeout" -> HOST_UNREACHABLE
      [] result = "refused" -> CONNECTION_REFUSED
      [] OTHER -> GENERAL_FAILURE

\* _handle_request, lines 487-489 and 497-498: 05 REP 00 01 and six zero bytes
Reply(code) == <<5, code, 0, ATYP_IPV4, 0, 0, 0, 0, 0, 0>>

\* ------------------------------------------------------------------- state
VARIABLES
    auth_required,       \* SOCKS5Proxy.auth_required
    status,              \* SOCKS5Proxy.status
    running,             \* SOCKS5Proxy.running
    server_socket,       \* "none", "unbound", "open" or "closed"
    connections,         \* keys of SOCKS5Proxy.connections, in insertion order
    rec,                 \* the ConnectionStats object made for each conn_id
    stats,               \* SOCKS5Proxy.stats
    connection_counter,  \* SOCKS5Proxy.connection_counter
    startpc,             \* where the caller of start() is
    apc,                 \* where the accept thread is
    hpc,                 \* where each handler thread is
    hs,                  \* what _handle_handshake returned to each handler
    rcvd,                \* the messages each handler has read from its client
    sent,                \* the messages each handler has written to its client
    dial,                \* the connect() each handler has made
    tsock,               \* each handler's target socket
    csock,               \* each handler's client socket
    c2t,                 \* bytes each relay has written to its target
    t2c,                 \* bytes each relay has written to its client
    cin,                 \* bytes each relay has read from its client
    tin,                 \* bytes each relay has read from its target
    tout,                \* the client's bytes that reached the target
    cout,                \* the target's bytes that reached the client
    idle,                \* polls in a row in which no socket was readable
    spc,                 \* where the thread calling stop() is
    stops,               \* calls of stop() begun
    stopList,            \* the conn_ids stop() has still to close
    stopKeys,            \* the conn_ids the last stop() listed at line 273
    ccpc,                \* where each thread is inside _close_connection
    ccid,                \* the conn_id each thread is closing
    closes,              \* times stats.close_connection ran on each record
    clientsLeft,         \* clients that have yet to connect
    rejected,            \* accepted clients the accept loop closed at once
    tunnel,              \* the TunnelInfo of the one tunnel port
    child,               \* the SSH child process: "none", "alive" or "exited"
    tpc,                 \* where the thread in the manager's code is
    caller,              \* who called create_tunnel: "start" or "recover"
    attempt,             \* create_tunnel's loop variable (line 1060)
    probes,              \* the probe pairs of the rounds create_tunnel ran
    created,             \* what the last create_tunnel returned
    seen,                \* the probe pair of the monitor's last tick
    healthy_count,       \* _monitor_loop's count of healthy tunnels (line 1285)
    consecutive_failures, \* _monitor_loop's count of failing ticks (line 1278)
    sleep_time,          \* what _monitor_loop last slept (line 1339)
    all_healthy,         \* whether the last tick found every tunnel healthy
    pid_file,            \* whether the tunnel's PID file exists
    monitoring,          \* the manager's flag self.monitoring
    mpc,                 \* where the main thread is once the tunnels started
    viewing,             \* whether the main thread is building a status row
    row,                 \* the fields of the tunnel the status view has read
    hist,                \* the values the row's fields had during the view
    ports,               \* the tunnel ports start_tunnels has yet to create
    fleet,               \* self.tunnels: what each registered port was given
    mon,                 \* where each thread started on _monitor_loop is
    monitor_thread       \* self.monitor_thread: the thread last started, or 0

vars == <<auth_required, status, running, server_socket, connections, rec,
          stats, connection_counter, startpc, apc, hpc, hs, rcvd, sent, dial,
          tsock, csock, c2t, t2c, cin, tin, tout, cout, idle, spc, stops,
          stopList, stopKeys, ccpc, ccid, closes, clientsLeft, rejected,
          tunnel, child, tpc, caller, attempt, probes, created, seen,
          healthy_count, consecutive_failures, sleep_time, all_healthy,
          pid_file, monitoring, mpc, viewing, row, hist, ports, fleet, mon,
          monitor_thread>>

\* the locals of _monitor_loop and what its last tick found
monitorVars == <<healthy_count, consecutive_failures, sleep_time, all_healthy>>

\* the state of the manager (CompleteSSHTunnelSOCKS5Manager) and its tunnel
\* the monitoring flag and the main thread, which starts the tunnels, then
\* shows the status until a signal arrives (main, lines 1648-1675)
mainVars == <<monitoring, mpc>>

\* the status view of the main thread (get_status_display, lines 1384-1438)
viewVars == <<viewing, row>>

\* the fleet of tunnel ports of one run (parse_ports, start_tunnels)
fleetVars == <<ports, fleet>>

\* the threads start_monitoring has started (lines 1259-1274)
monVars == <<mon, monitor_thread>>

\* one tunnel port: its TunnelInfo, its SSH child and the threads on it
supervisorVars == <<tunnel, child, tpc, caller, attempt, probes, created,
                    seen, monitorVars, pid_file, mainVars, viewVars, hist>>

tunnelVars == <<supervisorVars, fleetVars, monVars>>

engineVars == <<status, running, server_socket, startpc>>
relayIO == <<cin, tin, tout, cout, idle>>
handlerIO == <<hs, rcvd, sent, dial, tsock, c2t, t2c, relayIO>>
closeVars == <<ccpc, ccid, closes, stopList, stopKeys, spc>>

NoRec == [made |-> FALSE, active |-> FALSE, bytes_sent |-> 0,
          bytes_received |-> 0, target_addr |-> NoAddr, target_port |-> 0]
NoDial == [made |-> FALSE, addr |-> NoAddr, port |-> 0, result |-> "none"]

\* SOCKS5Proxy.__init__ and ProxyStats(): the engine as constructed
InitEngine ==
    /\ status = "stopped"
    /\ running = FALSE
    /\ server_socket = "none"
    /\ connections = <<>>
    /\ rec = [c \in ConnIds |-> NoRec]
    /\ stats = [total_connections |-> 0, active_connections |-> 0,
                failed_connections |-> 0, total_bytes_transferred |-> 0]
    /\ connection_counter = 0
    /\ startpc = "idle"
    /\ apc = "none"
    /\ hpc = [c \in ConnIds |-> "unborn"]
    /\ hs = [c \in ConnIds |-> "none"]
    /\ rcvd = [c \in ConnIds |-> <<>>]
    /\ sent = [c \in ConnIds |-> <<>>]
    /\ dial = [c \in ConnIds |-> NoDial]
    /\ tsock = [c \in ConnIds |-> "none"]
    /\ csock = [c \in ConnIds |-> "none"]
    /\ c2t = [c \in ConnIds |-> 0]
    /\ t2c = [c \in ConnIds |-> 0]
    /\ cin = [c \in ConnIds |-> 0]
    /\ tin = [c \in ConnIds |-> 0]
    /\ tout = [c \in ConnIds |-> <<>>]
    /\ cout = [c \in ConnIds |-> <<>>]
    /\ idle = [c \in ConnIds |-> 0]
    /\ spc = "idle"
    /\ stops = 0
    /\ stopList = <<>>
    /\ stopKeys = {}
    /\ ccpc = [t \in Threads |-> "idle"]
    /\ ccid = [t \in Threads |-> 0]
    /\ closes = [c \in ConnIds |-> 0]
    /\ rejected = 0

\* ------------------------------------------------------------------- start
\* start(), lines 234-238: status STARTING and the socket made
StartBegin ==
    /\ startpc = "idle"
    /\ spc = "idle"
    /\ stops = 0
    /\ status' = "starting"
    /\ server_socket' = "unbound"
    /\ startpc' = "binding"
    /\ UNCHANGED <<tunnelVars,
                   auth_required, running, connections, rec, stats,
                   connection_counter, apc, hpc, handlerIO, csock, closeVars,
                   stops, clientsLeft, rejected>>

\* variant: bind and listen succeed and no accept thread is started
StartBindNoThread(bound) ==
    /\ startpc = "binding"
    /\ startpc' = "done"
    /\ IF bound
       THEN /\ server_socket' = "open"
            /\ running' = TRUE
            /\ status' = "running"
            /\ apc' = apc
       ELSE /\ status' = "failed"
            /\ UNCHANGED <<server_socket, running, apc>>
    /\ UNCHANGED <<tunnelVars,
                   auth_required, connections, rec, stats, connection_counter,
                   hpc, handlerIO, csock, closeVars, stops, clientsLeft,
                   rejected>>

\* start(), lines 239-254: bind and listen succeed (the accept thread is
\* started) or raise (status FAILED)
StartBind(bound) ==
    /\ startpc = "binding"
    /\ startpc' = "done"
    /\ IF bound
       THEN /\ server_socket' = "open"
            /\ running' = TRUE
            /\ status' = "running"
            /\ apc' = "loop"
       ELSE /\ status' = "failed"
            /\ UNCHANGED <<server_socket, running, apc>>
    /\ UNCHANGED <<tunnelVars,
                   auth_required, connections, rec, stats, connection_counter,
                   hpc, handlerIO, csock, closeVars, stops, clientsLeft,
                   rejected>>

\* ------------------------------------------------------------ accept thread
\* _accept_loop, line 278: while self.running
AcceptLoop ==
    /\ apc = "loop"
    /\ apc' = IF running THEN "select" ELSE "exited"
    /\ UNCHANGED <<tunnelVars,
                   auth_required, engineVars, connections, rec, stats,
                   connection_counter, hpc, handlerIO, csock, closeVars, stops,
                   clientsLeft, rejected>>

\* _accept_loop, lines 281-283 and 307-309: select times out, or raises on
\* the closed listener
AcceptIdle ==
    /\ apc = "select"
    /\ apc' = "loop"
    /\ UNCHANGED <<tunnelVars,
                   auth_required, engineVars, connections, rec, stats,
                   connection_counter, hpc, handlerIO, csock, closeVars, stops,
                   clientsLeft, rejected>>

\* variant: one connection more than max_connections is let in
AcceptFullOffByOne == Len(connections) > max_connections

\* _accept_loop, line 287: len(self.connections) >= self.max_connections
AcceptFull == Len(connections) >= max_connections

\* _accept_loop, lines 285-302: a client is accepted, then refused or given
\* the next conn_id and a handler thread
AcceptClient ==
    /\ apc = "select"
    /\ server_socket = "open"
    /\ clientsLeft > 0
    /\ clientsLeft' = clientsLeft - 1
    /\ apc' = "loop"
    /\ IF AcceptFull
       THEN /\ rejected' = rejected + 1
            /\ stats' = [stats EXCEPT !.failed_connections = @ + 1]
            /\ UNCHANGED <<connection_counter, hpc, csock>>
       ELSE /\ connection_counter' = connection_counter + 1
            /\ hpc' = [hpc EXCEPT ![connection_counter] = "handshake"]
            /\ csock' = [csock EXCEPT ![connection_counter] = "open"]
            /\ UNCHANGED <<rejected, stats>>
    /\ UNCHANGED <<tunnelVars,
                   auth_required, engineVars, connections, rec, handlerIO,
                   closeVars, stops>>

\* ---------------------------------------------------------- handler thread
\* _handle_connection, lines 340-341: the finally block calls
\* _close_connection(conn_id)
EnterFinally(c) ==
    /\ hpc' = [hpc EXCEPT ![c] = "closing"]
    /\ ccpc' = [ccpc EXCEPT ![c] = "check"]
    /\ ccid' = [ccid EXCEPT ![c] = c]

MethodReply(method) == <<5, method>>

\* _handle_handshake, lines 351-388 (the sub-negotiation it calls is the
\* handler's next step): data is what recv returned
HandleHandshake(c, data) ==
    /\ hpc[c] = "handshake"
    /\ rcvd' = [rcvd EXCEPT ![c] = Append(@, data)]
    /\ LET g == ParseGreeting(data)
           chosen_method == ChooseMethod(auth_required, g.methods)
       IN  IF ~g.ok
           THEN /\ hs' = [hs EXCEPT ![c] = "false"]
                /\ sent' = sent
                /\ EnterFinally(c)
           ELSE /\ sent' = [sent EXCEPT ![c] = Append(@, MethodReply(chosen_method))]
                /\ IF chosen_method = NO_ACCEPTABLE
                   THEN /\ hs' = [hs EXCEPT ![c] = "false"]
                        /\ EnterFinally(c)
                   ELSE IF chosen_method = USERNAME_PASSWORD
                   THEN /\ hpc' = [hpc EXCEPT ![c] = "auth"]
                        /\ UNCHANGED <<hs, ccpc, ccid>>
                   ELSE /\ hs' = [hs EXCEPT ![c] = "true"]
                        /\ hpc' = [hpc EXCEPT ![c] = "request"]
                        /\ UNCHANGED <<ccpc, ccid>>
    /\ UNCHANGED <<tunnelVars,
                   auth_required, engineVars, connections, rec, stats,
                   connection_counter, apc, dial, tsock, csock, c2t, t2c,
                   relayIO, spc,
                   stops, stopList,
                   stopKeys, closes, clientsLeft, rejected>>

AuthReply(auth_success) == <<1, IF auth_success THEN 0 ELSE 1>>

\* _handle_username_password_auth, lines 394-425, and lines 382-385 of
\* _handle_handshake
HandleAuth(c, data) ==
    /\ hpc[c] = "auth"
    /\ rcvd' = [rcvd EXCEPT ![c] = Append(@, data)]
    /\ LET cred == ParseAuth(data)
           auth_success == AuthSuccess(cred)
       IN  IF ~cred.ok
           THEN /\ hs' = [hs EXCEPT ![c] = "false"]
                /\ sent' = sent
                /\ EnterFinally(c)
           ELSE /\ sent' = [sent EXCEPT ![c] = Append(@, AuthReply(auth_success))]
                /\ IF auth_success
                   THEN /\ hs' = [hs EXCEPT ![c] = "true"]
                        /\ hpc' = [hpc EXCEPT ![c] = "request"]
                        /\ UNCHANGED <<ccpc, ccid>>
                   ELSE /\ hs' = [hs EXCEPT ![c] = "false"]
                        /\ EnterFinally(c)
    /\ UNCHANGED <<tunnelVars,
                   auth_required, engineVars, connections, rec, stats,
                   connection_counter, apc, dial, tsock, csock, c2t, t2c,
                   relayIO, spc,
                   stops, stopList,
                   stopKeys, closes, clientsLeft, rejected>>

\* _handle_request, lines 431-484 and 495-510: the request is read and
\* parsed and the target dialled; every failure is answered and returns None
HandleRequest(c, data, result) ==
    /\ hpc[c] = "request"
    /\ rcvd' = [rcvd EXCEPT ![c] = Append(@, data)]
    /\ LET req == ParseRequest(data) IN
       IF ~req.ok
       THEN /\ sent' = [sent EXCEPT ![c] = Append(@, Reply(req.code))]
            /\ EnterFinally(c)
            /\ UNCHANGED <<rec, dial, tsock>>
       ELSE /\ result \in DialResultsFor(req.addr)
            \* lines 469-471
            /\ rec' = IF c \in Elems(connections)
                      THEN [rec EXCEPT ![c].target_addr = req.addr,
                                       ![c].target_port = req.port]
                      ELSE rec
            /\ dial' = [dial EXCEPT ![c] = [made |-> TRUE, addr |-> req.addr,
                                            port |-> req.port, result |-> result]]
            /\ tsock' = [tsock EXCEPT ![c] = "open"]
            /\ IF result = "ok"
               THEN /\ hpc' = [hpc EXCEPT ![c] = "reply"]
                    /\ UNCHANGED <<sent, ccpc, ccid>>
               ELSE /\ sent' = [sent EXCEPT ![c] = Append(@, Reply(DialCode(result)))]
                    /\ EnterFinally(c)
    /\ UNCHANGED <<tunnelVars,
                   auth_required, engineVars, connections, stats,
                   connection_counter, apc, hs, csock, c2t, t2c,
                   relayIO, spc, stops,
                   stopList,
                   stopKeys, closes, clientsLeft, rejected>>

\* variant: a send that raises is ignored and the handler goes on
SendSuccessIgnoringError(c, sendOk) ==
    /\ hpc[c] = "reply"
    /\ sent' = IF sendOk THEN [sent EXCEPT ![c] = Append(@, Reply(SUCCESS))]
               ELSE sent
    /\ hpc' = [hpc EXCEPT ![c] = "register"]
    /\ UNCHANGED <<tunnelVars,
                   auth_required, engineVars, connections, rec, stats,
                   connection_counter, apc, hs, rcvd, dial, tsock, csock, c2t,
                   t2c,
                   relayIO, spc, stops, stopList,
                   stopKeys, ccpc, ccid, closes, clientsLeft,
                   rejected>>

\* _handle_request, lines 487-493 and 503-510: the success reply is sent and
\* the target socket returned; a send that raises returns None and leaves
\* the target socket open
SendSuccess(c, sendOk) ==
    /\ hpc[c] = "reply"
    /\ IF sendOk
       THEN /\ sent' = [sent EXCEPT ![c] = Append(@, Reply(SUCCESS))]
            /\ hpc' = [hpc EXCEPT ![c] = "register"]
            /\ UNCHANGED <<ccpc, ccid>>
       ELSE /\ sent' = sent
            /\ EnterFinally(c)
    /\ UNCHANGED <<tunnelVars,
                   auth_required, engineVars, connections, rec, stats,
                   connection_counter, apc, hs, rcvd, dial, tsock, csock, c2t,
                   t2c,
                   relayIO, spc, stops, stopList,
                   stopKeys, closes, clientsLeft, rejected>>

\* _handle_connection, lines 326-332: the record is made and stored
Register(c) ==
    /\ hpc[c] = "register"
    /\ rec' = [rec EXCEPT ![c] = [made |-> TRUE, active |-> TRUE,
                                  bytes_sent |-> 0, bytes_received |-> 0,
                                  target_addr |-> NoAddr, target_port |-> 0]]
    /\ connections' = IF c \in Elems(connections) THEN connections
                      ELSE Append(connections, c)
    /\ hpc' = [hpc EXCEPT ![c] = "add"]
    /\ UNCHANGED <<tunnelVars,
                   auth_required, engineVars, stats, connection_counter, apc,
                   handlerIO, csock, closeVars, stops, clientsLeft, rejected>>

\* ProxyStats.add_connection, lines 161-164, called at line 333
AddConnection(c) ==
    /\ hpc[c] = "add"
    /\ stats' = [stats EXCEPT !.total_connections = @ + 1,
                              !.active_connections = @ + 1]
    /\ hpc' = [hpc EXCEPT ![c] = "relay"]
    /\ UNCHANGED <<tunnelVars,
                   auth_required, engineVars, connections, rec,
                   connection_counter, apc, handlerIO, csock, closeVars, stops,
                   clientsLeft, rejected>>

\* _relay_data, line 521 and lines 554-558: while self.running; on leaving
\* the loop the target socket is closed and _handle_connection's finally runs
RelayLoop(c) ==
    /\ hpc[c] = "relay"
    /\ IF running
       THEN /\ hpc' = [hpc EXCEPT ![c] = "relay_io"]
            /\ UNCHANGED <<tsock, ccpc, ccid>>
       ELSE /\ tsock' = [tsock EXCEPT ![c] = "closed"]
            /\ EnterFinally(c)
    /\ UNCHANGED <<tunnelVars,
                   auth_required, engineVars, connections, rec, stats,
                   connection_counter, apc, hs, rcvd, sent, dial, csock, c2t,
                   t2c,
                   relayIO, spc, stops, stopList,
                   stopKeys, closes, clientsLeft, rejected>>

\* the k bytes that follow the first a bytes of a stream, by their positions
Offsets(a, k) == [i \in 1 .. k |-> a + i]

\* _relay_data, lines 541 and 545: the counter is advanced by len(data)
Counted(n, k) == n

\* _relay_data, lines 523-545: select, then recv returns n bytes from the
\* client (up) or from the target, and send() transfers the first k of them;
\* limit bounds the bytes read in one direction
RelayForward(c, up, n, k, limit) ==
    /\ hpc[c] = "relay_io"
    /\ k \in 1 .. n
    /\ hpc' = [hpc EXCEPT ![c] = "relay"]
    /\ idle' = [idle EXCEPT ![c] = 0]
    /\ IF up
       THEN /\ cin[c] + n <= limit
            /\ cin' = [cin EXCEPT ![c] = @ + n]
            /\ tout' = [tout EXCEPT ![c] = @ \o Offsets(cin[c], k)]
            /\ c2t' = [c2t EXCEPT ![c] = @ + k]
            /\ UNCHANGED <<t2c, tin, cout>>
            /\ rec' = IF c \in Elems(connections)
                      THEN [rec EXCEPT ![c].bytes_sent = @ + Counted(n, k)]
                      ELSE rec
       ELSE /\ tin[c] + n <= limit
            /\ tin' = [tin EXCEPT ![c] = @ + n]
            /\ cout' = [cout EXCEPT ![c] = @ \o Offsets(tin[c], k)]
            /\ t2c' = [t2c EXCEPT ![c] = @ + k]
            /\ UNCHANGED <<c2t, cin, tout>>
            /\ rec' = IF c \in Elems(connections)
                      THEN [rec EXCEPT ![c].bytes_received = @ + Counted(n, k)]
                      ELSE rec
    /\ UNCHANGED <<tunnelVars,
                   auth_required, engineVars, connections, stats,
                   connection_counter, apc, hs, rcvd, sent, dial, tsock, csock,
                   closeVars, stops, clientsLeft, rejected>>

\* _relay_data, lines 533-550 and 554-558: recv returns n bytes and send()
\* raises: socket.timeout goes on with the loop, any other socket.error
\* leaves the relay
RelaySendRaises(c, up, n, timeout, limit) ==
    /\ hpc[c] = "relay_io"
    /\ idle' = [idle EXCEPT ![c] = 0]
    /\ IF up
       THEN /\ cin[c] + n <= limit
            /\ cin' = [cin EXCEPT ![c] = @ + n]
            /\ tin' = tin
       ELSE /\ tin[c] + n <= limit
            /\ tin' = [tin EXCEPT ![c] = @ + n]
            /\ cin' = cin
    /\ IF timeout
       THEN /\ hpc' = [hpc EXCEPT ![c] = "relay"]
            /\ UNCHANGED <<tsock, ccpc, ccid>>
       ELSE /\ tsock' = [tsock EXCEPT ![c] = "closed"]
            /\ EnterFinally(c)
    /\ UNCHANGED <<tunnelVars,
                   auth_required, engineVars, connections, rec, stats,
                   connection_counter, apc, hs, rcvd, sent, dial, csock, c2t,
                   t2c, tout, cout, spc, stops, stopList,
                   stopKeys, closes, clientsLeft,
                   rejected>>

\* _relay_data, lines 528-529: select timed out after one second; ticks is
\* how far the polls without data are counted
RelayIdle(c, ticks) ==
    /\ hpc[c] = "relay_io"
    /\ hpc' = [hpc EXCEPT ![c] = "relay"]
    /\ idle' = [idle EXCEPT ![c] = Min(@ + 1, ticks)]
    /\ UNCHANGED <<tunnelVars,
                   auth_required, engineVars, connections, rec, stats,
                   connection_counter, apc, hs, rcvd, sent, dial, tsock, csock,
                   c2t, t2c, cin, tin, tout, cout, closeVars, stops,
                   clientsLeft, rejected>>

\* _relay_data, lines 525-526, 534-535, 549-550 and 554-558: a socket is in
\* error, a read returns no bytes or raises; the target socket is closed
RelayEnd(c) ==
    /\ hpc[c] = "relay_io"
    /\ tsock' = [tsock EXCEPT ![c] = "closed"]
    /\ EnterFinally(c)
    /\ UNCHANGED <<tunnelVars,
                   auth_required, engineVars, connections, rec, stats,
                   connection_counter, apc, hs, rcvd, sent, dial, csock, c2t,
                   t2c,
                   relayIO, spc, stops, stopList,
                   stopKeys, closes, clientsLeft, rejected>>

\* ------------------------------------------------------- _close_connection
\* what follows _close_connection in its caller.  In a handler
\* (_handle_connection, lines 341-345) the client socket is closed and the
\* thread ends, or the KeyError ends the thread inside the finally block.
\* In stop() (lines 273-274) the loop goes to the next conn_id, or the
\* KeyError leaves stop().
Resume(t, raised) ==
    IF t = StopT
    THEN /\ UNCHANGED <<hpc, csock>>
         /\ IF raised
            THEN /\ spc' = "crashed"
                 /\ ccpc' = [ccpc EXCEPT ![t] = "idle"]
                 /\ UNCHANGED <<stopList,
                   stopKeys, ccid>>
            ELSE /\ stopList' = Tail(stopList)
                 /\ stopKeys' = stopKeys
                 /\ IF Tail(stopList) = <<>>
                    THEN /\ spc' = "idle"
                         /\ ccpc' = [ccpc EXCEPT ![t] = "idle"]
                         /\ ccid' = ccid
                    ELSE /\ spc' = spc
                         /\ ccpc' = [ccpc EXCEPT ![t] = "check"]
                         /\ ccid' = [ccid EXCEPT ![t] = Head(Tail(stopList))]
    ELSE /\ UNCHANGED <<spc, stopList,
                   stopKeys, ccid>>
         /\ ccpc' = [ccpc EXCEPT ![t] = "idle"]
         /\ IF raised
            THEN /\ hpc' = [hpc EXCEPT ![t] = "crashed"]
                 /\ csock' = csock
            ELSE /\ hpc' = [hpc EXCEPT ![t] = "done"]
                 /\ csock' = [csock EXCEPT ![t] = "closed"]

\* _close_connection, line 562: if conn_id in self.connections
CloseCheck(t) ==
    /\ ccpc[t] = "check"
    /\ IF ccid[t] \in Elems(connections)
       THEN /\ ccpc' = [ccpc EXCEPT ![t] = "get"]
            /\ UNCHANGED <<hpc, csock, spc, stopList,
                   stopKeys, ccid>>
       ELSE Resume(t, FALSE)
    /\ UNCHANGED <<tunnelVars,
                   auth_required, engineVars, connections, rec, stats,
                   connection_counter, apc, handlerIO, stops, closes,
                   clientsLeft, rejected>>

\* _close_connection, line 563: conn_stats = self.connections[conn_id]
CloseGet(t) ==
    /\ ccpc[t] = "get"
    /\ IF ccid[t] \in Elems(connections)
       THEN /\ ccpc' = [ccpc EXCEPT ![t] = "stats"]
            /\ UNCHANGED <<hpc, csock, spc, stopList,
                   stopKeys, ccid>>
       ELSE Resume(t, TRUE)
    /\ UNCHANGED <<tunnelVars,
                   auth_required, engineVars, connections, rec, stats,
                   connection_counter, apc, handlerIO, stops, closes,
                   clientsLeft, rejected>>

\* ProxyStats.close_connection, lines 166-170, called at line 564
CloseStats(t) ==
    /\ ccpc[t] = "stats"
    /\ ccpc' = [ccpc EXCEPT ![t] = "del"]
    /\ rec' = [rec EXCEPT ![ccid[t]].active = FALSE]
    /\ stats' = [stats EXCEPT
                   !.active_connections = @ - 1,
                   !.total_bytes_transferred =
                       @ + rec[ccid[t]].bytes_sent + rec[ccid[t]].bytes_received]
    /\ closes' = [closes EXCEPT ![ccid[t]] = @ + 1]
    /\ UNCHANGED <<tunnelVars,
                   auth_required, engineVars, connections, connection_counter,
                   apc, hpc, handlerIO, csock, spc, stops, stopList,
                   stopKeys, ccid,
                   clientsLeft, rejected>>

\* _close_connection, line 565: del self.connections[conn_id]
CloseDel(t) ==
    /\ ccpc[t] = "del"
    /\ IF ccid[t] \in Elems(connections)
       THEN /\ connections' = Without(connections, ccid[t])
            /\ Resume(t, FALSE)
       ELSE /\ connections' = connections
            /\ Resume(t, TRUE)
    /\ UNCHANGED <<tunnelVars,
                   auth_required, engineVars, rec, stats, connection_counter,
                   apc, handlerIO, stops, closes, clientsLeft, rejected>>

\* -------------------------------------------------------------------- stop
\* stop(), lines 258-259
StopBegin ==
    /\ spc \in {"idle", "crashed"}
    /\ startpc # "binding"
    /\ stops < MaxStops
    /\ stops' = stops + 1
    /\ running' = FALSE
    /\ status' = "stopped"
    /\ spc' = "close"
    /\ UNCHANGED <<tunnelVars,
                   auth_required, server_socket, startpc, connections, rec,
                   stats, connection_counter, apc, hpc, handlerIO, csock,
                   stopList,
                   stopKeys, ccpc, ccid, closes, clientsLeft, rejected>>

\* stop(), lines 262-266
StopCloseSocket ==
    /\ spc = "close"
    /\ server_socket' = IF server_socket = "none" THEN "none" ELSE "closed"
    /\ spc' = "join"
    /\ UNCHANGED <<tunnelVars,
                   auth_required, status, running, startpc, connections, rec,
                   stats, connection_counter, apc, hpc, handlerIO, csock,
                   stops, stopList,
                   stopKeys, ccpc, ccid, closes, clientsLeft, rejected>>

\* stop(), lines 269-273: the join returns (the accept thread has ended, or
\* two seconds have passed) and the keys of connections are listed
StopSnapshot ==
    /\ spc = "join"
    /\ stopList' = connections
    /\ stopKeys' = Elems(connections)
    /\ IF connections = <<>>
       THEN /\ spc' = "idle"
            /\ UNCHANGED <<ccpc, ccid>>
       ELSE /\ spc' = "closing"
            /\ ccpc' = [ccpc EXCEPT ![StopT] = "check"]
            /\ ccid' = [ccid EXCEPT ![StopT] = Head(connections)]
    /\ UNCHANGED <<tunnelVars,
                   auth_required, engineVars, connections, rec, stats,
                   connection_counter, apc, hpc, handlerIO, csock, stops,
                   closes, clientsLeft, rejected>>

\* ------------------------------------------------------------ the manager
\* TunnelInfo's defaults, lines 723-737
NoTunnel ==
    [status |-> "stopped", failure_count |-> 0, last_error |-> "none",
     process |-> FALSE, pid |-> FALSE, start_time |-> FALSE,
     socks5_proxy |-> FALSE, socks5_port |-> FALSE,
     socks5_status |-> "stopped", socks5_health_checker |-> FALSE]

\* the threads start_monitoring can start
MonitorIds == 1..MaxMonitors

\* start_tunnels has not run yet
InitTunnel ==
    /\ tunnel = NoTunnel
    /\ child = "none"
    /\ tpc = "idle"
    /\ caller = "start"
    /\ attempt = 0
    /\ probes = <<>>
    /\ created = "none"
    /\ seen = <<FALSE, FALSE>>
    /\ healthy_count = 0
    /\ consecutive_failures = 0
    /\ sleep_time = 0
    /\ all_healthy = FALSE
    /\ pid_file = FALSE
    /\ monitoring = FALSE
    /\ mpc = "start"
    /\ viewing = FALSE
    /\ row = <<>>
    /\ hist = {}
    /\ ports = <<>>
    /\ fleet = <<>>
    /\ mon = [t \in MonitorIds |-> "unborn"]
    /\ monitor_thread = 0

\* what the manager does not touch of an engine: its connections, their
\* handlers and its statistics
connVars == <<auth_required, connections, rec, stats, connection_counter, hpc,
              handlerIO, csock, ccpc, ccid, closes, stopList, stopKeys,
              clientsLeft, rejected>>

\* the fields and threads of the engine object the tunnel owns
proxyVars == <<status, running, server_socket, startpc, apc, spc, stops>>

\* the engine accepts and serves: the least a healthy SOCKS5 probe needs
Serving ==
    /\ tunnel.socks5_health_checker
    /\ server_socket = "open"
    /\ running
    /\ apc \in {"loop", "select"}

\* check_socks5_handshake, line 618: the greeting the probe sends, 05 01 00
ProbeGreeting == <<5, 1, NO_AUTH>>

\* check_socks5_handshake, lines 610-633, against _handle_handshake: the
\* probe passes when the engine answers its greeting with method NO_AUTH
check_socks5_handshake(auth) ==
    LET greeting == ParseGreeting(ProbeGreeting)
    IN  /\ greeting.ok
        /\ ChooseMethod(auth, greeting.methods) = NO_AUTH

\* the outcomes test_socks5_health (lines 978-989) can have: overall_healthy
\* needs every stage of run_health_check, the handshake among them
Socks5Probes ==
    IF Serving /\ check_socks5_handshake(auth_required) THEN BOOLEAN
    ELSE {FALSE}

\* the outcomes test_tunnel_health (lines 1087-1107) can have
SshProbes == BOOLEAN

\* create_tunnel returns False: lines 999-1001, 1055-1057, 1077-1079 and
\* 1082-1085
\* the fields of a TunnelInfo that a row of the status table shows, in the
\* order get_status_display reads them (lines 1408-1435)
Fields(t) ==
    <<t.status, t.socks5_status, t.last_error, t.socks5_port, t.start_time,
      t.failure_count>>

\* while the status view builds a row, the values the fields take are kept
Track ==
    hist' = IF viewing THEN hist \cup {Fields(tunnel')} ELSE hist

CreateFails(t, st, err) ==
    /\ tunnel' = [t EXCEPT !.status = st, !.failure_count = @ + 1,
                           !.last_error = IF err = "same" THEN @ ELSE err]
    /\ created' = "false"
    /\ tpc' = "returned"

\* start_tunnels, line 1190, and create_tunnel, lines 993-998 and 941-949:
\* the TunnelInfo is made, the status is STARTING and a SOCKS5Proxy is
\* constructed
StartTunnels ==
    /\ tpc = "idle"
    /\ tunnel' = [NoTunnel EXCEPT !.status = "starting"]
    /\ caller' = "start"
    /\ tpc' = "proxy_start"
    /\ created' = "none"
    /\ attempt' = 0
    /\ probes' = <<>>
    /\ status' = "stopped"
    /\ running' = FALSE
    /\ server_socket' = "none"
    /\ startpc' = "idle"
    /\ apc' = "none"
    /\ spc' = "idle"
    /\ stops' = 0
    /\ UNCHANGED <<fleetVars, monVars, viewVars, mainVars, pid_file, monitorVars, connVars, child, seen>>
    /\ Track

\* create_socks5_proxy, line 952: socks5_proxy.start() runs
ProxyStart ==
    /\ tpc = "proxy_start"
    /\ StartBegin \/ \E bound \in BOOLEAN : StartBind(bound)

\* create_socks5_proxy, lines 952-957 and 968-971, and create_tunnel, lines
\* 998-1001: start() has returned
ProxyStarted ==
    /\ tpc = "proxy_start"
    /\ startpc = "done"
    /\ tunnel.failure_count < MaxFailureCount
    /\ IF status = "running"
       THEN /\ tunnel' = [tunnel EXCEPT !.socks5_proxy = TRUE,
                                        !.socks5_port = TRUE,
                                        !.socks5_status = "running",
                                        !.socks5_health_checker = TRUE]
            /\ tpc' = "proxy_probe"
            /\ created' = created
       ELSE CreateFails([tunnel EXCEPT !.socks5_status = "failed"],
                        "failed", "same")
    /\ UNCHANGED <<fleetVars, monVars, viewVars, mainVars, pid_file, monitorVars, connVars, proxyVars, child, caller, attempt, probes, seen>>
    /\ Track

\* create_socks5_proxy, lines 961-967, and create_tunnel, lines 998-1001:
\* the probe of the engine just started
ProxyProbed(healthy) ==
    /\ tpc = "proxy_probe"
    /\ tunnel.failure_count < MaxFailureCount
    /\ IF healthy
       THEN /\ tpc' = "spawn"
            /\ UNCHANGED <<tunnel, created>>
       ELSE CreateFails(tunnel, "failed", "same")
    /\ UNCHANGED <<fleetVars, monVars, viewVars, mainVars, pid_file, monitorVars, connVars, proxyVars, child, caller, attempt, probes, seen>>
    /\ Track

\* create_tunnel, lines 1030-1047 and 1081-1085: the SSH child is spawned
\* (or Popen raises) and three seconds pass
Spawn(spawned) ==
    /\ tpc = "spawn"
    /\ tunnel.failure_count < MaxFailureCount
    /\ IF spawned
       THEN /\ tunnel' = [tunnel EXCEPT !.process = TRUE, !.pid = TRUE,
                                        !.start_time = TRUE]
            /\ pid_file' = TRUE
            /\ child' = "alive"
            /\ tpc' = "wait"
            /\ created' = created
       ELSE /\ CreateFails(tunnel, "failed", "exception")
            /\ UNCHANGED <<child, pid_file>>
    /\ UNCHANGED <<fleetVars, monVars, viewVars, mainVars, monitorVars, connVars, proxyVars, caller, attempt, probes, seen>>
    /\ Track

\* the SSH child ends by itself or is killed from outside
ChildExits ==
    /\ child = "alive"
    /\ child' = "exited"
    /\ UNCHANGED <<fleetVars, monVars, viewVars, mainVars, pid_file, monitorVars, connVars, proxyVars, tunnel, tpc, caller, attempt, probes,
                   created, seen>>
    /\ Track

\* create_tunnel, lines 1050-1060: process.poll()
CheckChild ==
    /\ tpc = "wait"
    /\ tunnel.failure_count < MaxFailureCount
    /\ IF child = "exited"
       THEN /\ CreateFails(tunnel, "failed", "died")
            /\ UNCHANGED <<attempt, probes>>
       ELSE /\ tpc' = "rounds"
            /\ attempt' = 0
            /\ probes' = <<>>
            /\ UNCHANGED <<tunnel, created>>
    /\ UNCHANGED <<fleetVars, monVars, viewVars, mainVars, pid_file, monitorVars, connVars, proxyVars, child, caller, seen>>
    /\ Track

\* variant: a round counts when the SSH probe alone is healthy
RoundHealthySshOnly(ssh_healthy, socks5_healthy) == ssh_healthy

\* create_tunnel, line 1064
RoundHealthy(ssh_healthy, socks5_healthy) == ssh_healthy /\ socks5_healthy

\* create_tunnel, lines 1060-1073: one round of the two probes
ProbeRound(ssh_healthy, socks5_healthy) ==
    /\ tpc = "rounds"
    /\ attempt < 3
    /\ probes' = Append(probes, <<ssh_healthy, socks5_healthy>>)
    /\ IF RoundHealthy(ssh_healthy, socks5_healthy)
       THEN /\ tunnel' = [tunnel EXCEPT !.status = "running",
                                        !.failure_count = 0,
                                        !.last_error = "none"]
            /\ created' = "true"
            /\ tpc' = "returned"
            /\ attempt' = attempt
       ELSE /\ attempt' = attempt + 1
            /\ UNCHANGED <<tunnel, created, tpc>>
    /\ UNCHANGED <<fleetVars, monVars, viewVars, mainVars, pid_file, monitorVars, connVars, proxyVars, child, caller, seen>>
    /\ Track

\* create_tunnel, lines 1075-1079: no round of the three was healthy
RoundsExhausted ==
    /\ tpc = "rounds"
    /\ attempt = 3
    /\ tunnel.failure_count < MaxFailureCount
    /\ CreateFails(tunnel, "unhealthy", "health")
    /\ UNCHANGED <<fleetVars, monVars, viewVars, mainVars, pid_file, monitorVars, connVars, proxyVars, child, caller, attempt, probes, seen>>
    /\ Track

\* create_tunnel has returned.  To start_tunnels (lines 1250-1257) and main
\* (lines 1648-1675): monitoring starts when this tunnel or another one
\* (others) was created (start_monitoring, lines 1259-1267, sets the flag
\* and starts the monitor's thread), and the process exits when none was.  To
\* _recover_tunnel (lines 1360-1363), called by the monitor's loop.
Returned(others) ==
    /\ tpc = "returned"
    /\ tpc' = IF caller = "recover" THEN "tick_end"
              ELSE IF created = "true" \/ others THEN "monitor" ELSE "exited"
    /\ IF caller = "start" /\ (created = "true" \/ others)
       THEN monitoring' = TRUE /\ mpc' = "live"
       ELSE UNCHANGED mainVars
    /\ UNCHANGED <<fleetVars, monVars, viewVars, pid_file, monitorVars, connVars, proxyVars, tunnel, child, caller, attempt,
                   probes, created, seen>>
    /\ Track

\* variant: a tunnel whose SSH probe alone fails is FAILED
MonitorStatusSshFailed(ssh_healthy, socks5_healthy) ==
    IF ssh_healthy /\ socks5_healthy
    THEN [status |-> "running", socks5_status |-> "running"]
    ELSE IF ~ssh_healthy
    THEN [status |-> "failed", socks5_status |-> "failed"]
    ELSE [status |-> "running", socks5_status |-> "unhealthy"]

\* _monitor_loop, lines 1300-1315: the statuses a pair of probes gives
MonitorStatus(ssh_healthy, socks5_healthy) ==
    IF ssh_healthy /\ socks5_healthy
    THEN [status |-> "running", socks5_status |-> "running"]
    ELSE IF ~ssh_healthy /\ ~socks5_healthy
    THEN [status |-> "failed", socks5_status |-> "failed"]
    ELSE IF ~ssh_healthy
    THEN [status |-> "unhealthy",
          socks5_status |-> IF socks5_healthy THEN "running" ELSE "unhealthy"]
    ELSE [status |-> "running", socks5_status |-> "unhealthy"]

\* variant: a healthy turn lowers failure_count with no floor
TickFailureCountNoFloor(failure_count, healthy) ==
    IF healthy THEN failure_count - 1 ELSE failure_count + 1

\* _monitor_loop, lines 1304 and 1318: the failure_count a turn leaves
TickFailureCount(failure_count, healthy) ==
    IF healthy THEN Max(0, failure_count - 1) ELSE failure_count + 1

\* _monitor_loop, lines 1289-1323: the tunnel's turn in a tick.  The SSH
\* probe runs only when the child is alive (line 1293); ssh and socks5 are
\* what the probes answer
MonitorTick(ssh, socks5) ==
    /\ tpc = "monitor"
    /\ monitoring
    /\ tunnel.failure_count < MaxFailureCount
    /\ socks5 \in Socks5Probes
    /\ LET ssh_healthy == tunnel.process /\ child = "alive" /\ ssh
           socks5_healthy == socks5
           new == MonitorStatus(ssh_healthy, socks5_healthy)
           failure_count == TickFailureCount(tunnel.failure_count,
                                             ssh_healthy /\ socks5_healthy)
       IN  /\ seen' = <<ssh_healthy, socks5_healthy>>
           /\ tunnel' = [tunnel EXCEPT !.status = new.status,
                                       !.socks5_status = new.socks5_status,
                                       !.failure_count = failure_count]
           /\ healthy_count' = IF ssh_healthy /\ socks5_healthy
                               THEN 1 ELSE 0
           /\ tpc' = IF ~(ssh_healthy /\ socks5_healthy)
                        /\ failure_count >= max_failure_count
                     THEN "recover" ELSE "tick_end"
    /\ UNCHANGED <<fleetVars, monVars, viewVars, mainVars, pid_file, connVars, proxyVars, child, caller, attempt, probes,
                   created, consecutive_failures, sleep_time, all_healthy>>
    /\ Track

\* variant: the backoff doubles without the limit of 2^5
SleepTimeUncapped(k) ==
    IF k > 0 THEN health_check_interval * (2 ^ k) ELSE health_check_interval

\* _monitor_loop, lines 1334-1337: the sleep after k failing ticks in a row
SleepTime(k) ==
    IF k > 0
    THEN Min(health_check_interval * (2 ^ Min(k, 5)), 300)
    ELSE health_check_interval

\* _monitor_loop, lines 1325-1339: the end of a tick.  healthy_count counts
\* this tunnel; others says whether every other tunnel of the manager was
\* found healthy
TickEnd(others) ==
    /\ tpc = "tick_end"
    /\ LET healthy == healthy_count = 1 /\ others
           k == IF healthy THEN 0 ELSE consecutive_failures + 1
       IN  /\ ~healthy => consecutive_failures < MaxConsecutive
           /\ all_healthy' = healthy
           /\ consecutive_failures' = k
           /\ sleep_time' = SleepTime(k)
    /\ tpc' = "monitor"
    /\ UNCHANGED <<fleetVars, monVars, viewVars, mainVars, pid_file, connVars, proxyVars, tunnel, child, caller, attempt,
                   probes, created, seen, healthy_count>>
    /\ Track

\* variant: recovery creates the tunnel again without stopping it first
RecoverBeginNoStop ==
    /\ tpc = "recover"
    /\ tunnel' = [tunnel EXCEPT !.status = "recovering"]
    /\ tpc' = "recover_create"
    /\ UNCHANGED <<fleetVars, monVars, viewVars, mainVars, pid_file, monitorVars, connVars, proxyVars, child, caller, attempt,
                   probes, created, seen>>
    /\ Track

\* _recover_tunnel, lines 1347-1348
RecoverBegin ==
    /\ tpc = "recover"
    /\ tunnel' = [tunnel EXCEPT !.status = "recovering"]
    /\ tpc' = "stop_child"
    /\ UNCHANGED <<fleetVars, monVars, viewVars, mainVars, pid_file, monitorVars, connVars, proxyVars, child, caller, attempt, probes,
                   created, seen>>
    /\ Track

\* stop_tunnel, lines 1152-1161: the child is terminated, or killed after
\* five seconds
StopChild ==
    /\ tpc = "stop_child"
    /\ child' = IF tunnel.process /\ child = "alive" THEN "exited" ELSE child
    /\ tpc' = IF tunnel.socks5_proxy THEN "stop_proxy" ELSE "stop_reset"
    /\ UNCHANGED <<fleetVars, monVars, viewVars, mainVars, pid_file, monitorVars, connVars, proxyVars, tunnel, caller, attempt, probes,
                   created, seen>>
    /\ Track

\* stop_tunnel, line 1162: tunnel.socks5_proxy.stop() runs
ProxyStop ==
    \/ tpc = "stop_proxy" /\ stops = 0 /\ StopBegin
    \/ StopCloseSocket
    \/ StopSnapshot

\* stop_tunnel, lines 1163-1164: stop() has returned
ProxyStopped ==
    /\ tpc = "stop_proxy"
    /\ stops >= 1
    /\ spc = "idle"
    /\ tunnel' = [tunnel EXCEPT !.socks5_proxy = FALSE,
                                !.socks5_status = "stopped"]
    /\ tpc' = "stop_reset"
    /\ UNCHANGED <<fleetVars, monVars, viewVars, mainVars, pid_file, monitorVars, connVars, proxyVars, child, caller, attempt, probes,
                   created, seen>>
    /\ Track

\* stop_tunnel, lines 1166-1178
StopReset ==
    /\ tpc = "stop_reset"
    /\ pid_file' = FALSE
    /\ tunnel' = [tunnel EXCEPT !.status = "stopped", !.process = FALSE,
                                !.pid = FALSE, !.start_time = FALSE,
                                !.socks5_port = FALSE,
                                !.socks5_health_checker = FALSE]
    /\ child' = "none"
    /\ tpc' = "recover_create"
    /\ UNCHANGED <<fleetVars, monVars, viewVars, mainVars, monitorVars, connVars, proxyVars, caller, attempt, probes, created,
                   seen>>
    /\ Track

\* _recover_tunnel, lines 1357-1360, and create_tunnel, lines 993-998 and
\* 941-949: after recovery_delay the tunnel is created again, with a new
\* SOCKS5Proxy
RecoverCreate ==
    /\ tpc = "recover_create"
    /\ tunnel' = [tunnel EXCEPT !.status = "starting"]
    /\ caller' = "recover"
    /\ tpc' = "proxy_start"
    /\ created' = "none"
    /\ attempt' = 0
    /\ probes' = <<>>
    /\ status' = "stopped"
    /\ running' = FALSE
    /\ server_socket' = "none"
    /\ startpc' = "idle"
    /\ apc' = "none"
    /\ spc' = "idle"
    /\ stops' = 0
    /\ UNCHANGED <<fleetVars, monVars, viewVars, mainVars, pid_file, monitorVars, connVars, child, seen>>
    /\ Track

\* the manager with one tunnel port, the engine it owns and the SSH child
NextTunnel ==
    \/ StartTunnels
    \/ ProxyStart
    \/ ProxyStarted
    \/ \E healthy \in Socks5Probes : ProxyProbed(healthy)
    \/ \E spawned \in BOOLEAN : Spawn(spawned)
    \/ ChildExits
    \/ CheckChild
    \/ \E ssh_healthy \in SshProbes, socks5_healthy \in Socks5Probes :
           ProbeRound(ssh_healthy, socks5_healthy)
    \/ RoundsExhausted
    \/ \E others \in BOOLEAN : Returned(others)
    \/ \E ssh \in SshProbes, socks5 \in BOOLEAN : MonitorTick(ssh, socks5)
    \/ \E others \in BOOLEAN : TickEnd(others)
    \/ RecoverBegin
    \/ StopChild
    \/ ProxyStop
    \/ ProxyStopped
    \/ StopReset
    \/ RecoverCreate
    \/ AcceptLoop
    \/ AcceptIdle

InitManager ==
    /\ InitEngine
    /\ InitTunnel
    /\ auth_required = FALSE
    /\ clientsLeft = 0

SpecTunnel == InitManager /\ [][NextTunnel]_vars

\* ------------------------------------------------------- what clients send
\* greetings: no-auth, username/password, both, an unknown method only, no
\* method (and a padding byte), two bytes, a wrong version, fewer methods
\* than announced, nothing
Greetings ==
    {<<5, 1, 0>>, <<5, 1, 2>>, <<5, 2, 0, 2>>, <<5, 1, 1>>, <<5, 0, 0>>,
     <<5, 1>>, <<4, 1, 0>>, <<5, 3, 0>>, <<>>}

\* sub-negotiations: the configured pair, a wrong password, a wrong user, a
\* wrong version, a cut message, a name that is not UTF-8, nothing
Auths ==
    {<<1, 1, 117, 1, 112>>, <<1, 1, 117, 1, 113>>, <<1, 1, 118, 1, 112>>,
     <<2, 1, 117, 1, 112>>, <<1, 1, 117>>, <<1, 1, 255, 1, 112>>, <<>>}

IPv6Loopback == <<0, 0, 0, 0, 0, 0, 0, 0, 0, 0, 0, 0, 0, 0, 0, 1>>

\* requests: CONNECT to 127.0.0.1:19000, to the name "a" port 80, to the
\* empty name, to ::1; BIND; UDP ASSOCIATE; an unknown command with an
\* unknown address type; CONNECT with an unknown address type; a wrong
\* version; three bytes; a cut IPv4 address; a cut name; nothing
Requests ==
    {<<5, 1, 0, 1, 127, 0, 0, 1, 74, 56>>, <<5, 1, 0, 3, 1, 97, 0, 80>>,
     <<5, 1, 0, 3, 0, 0, 80>>, <<5, 1, 0, 4>> \o IPv6Loopback \o <<0, 80>>,
     <<5, 2, 0, 1, 127, 0, 0, 1, 0, 80>>, <<5, 3, 0, 1, 127, 0, 0, 1, 0, 80>>,
     <<5, 9, 0, 9, 0, 0>>, <<5, 1, 0, 9, 0, 0>>,
     <<4, 1, 0, 1, 127, 0, 0, 1, 0, 80>>, <<5, 1, 0>>,
     <<5, 1, 0, 1, 127, 0>>, <<5, 1, 0, 3, 5, 97, 0, 80>>, <<>>}

\* the few messages sent where several clients and stop() interleave
FewGreetings == {<<5, 1, 0>>, <<5, 1, 2>>, <<5, 1>>}
FewAuths == {<<1, 1, 117, 1, 112>>, <<1, 1, 117, 1, 113>>}
FewRequests == {<<5, 1, 0, 1, 127, 0, 0, 1, 74, 56>>,
                <<5, 2, 0, 1, 127, 0, 0, 1, 0, 80>>}
FewDialResults == {"ok", "refused"}

\* ----------------------------------------------------------- specifications
Negotiate(c, G, A, R, D) ==
    \/ \E data \in G : HandleHandshake(c, data)
    \/ \E data \in A : HandleAuth(c, data)
    \/ \E data \in R, result \in D : HandleRequest(c, data, result)
    \/ \E sendOk \in BOOLEAN : SendSuccess(c, sendOk)
    \/ Register(c)
    \/ AddConnection(c)

\* _relay_data, lines 512-558: reads of up to chunk bytes, limit bytes in
\* one direction, polls without data counted up to ticks
Relay(c, chunk, limit, ticks) ==
    \/ RelayLoop(c)
    \/ \E up \in BOOLEAN, n \in 1 .. chunk, k \in 1 .. chunk :
           RelayForward(c, up, n, k, limit)
    \/ RelayIdle(c, ticks)
    \/ RelayEnd(c)

\* a handler whose relay moves single bytes and counts no polls
Handler(c, G, A, R, D) ==
    \/ Negotiate(c, G, A, R, D)
    \/ Relay(c, 1, MaxBytes, 0)

Engine ==
    \/ StartBegin
    \/ \E bound \in BOOLEAN : StartBind(bound)
    \/ AcceptLoop
    \/ AcceptIdle
    \/ AcceptClient
    \/ StopBegin
    \/ StopCloseSocket
    \/ StopSnapshot
    \/ \E t \in Threads : CloseCheck(t) \/ CloseGet(t) \/ CloseStats(t) \/ CloseDel(t)

\* several clients, stop() and the accept thread interleave
Init ==
    /\ InitEngine
    /\ InitTunnel
    /\ auth_required \in BOOLEAN
    /\ clientsLeft = MaxClients

Next ==
    \/ Engine
    \/ \E c \in ConnIds : Handler(c, FewGreetings, FewAuths, FewRequests, FewDialResults)

Spec == Init /\ [][Next]_vars

\* one client, every message of Greetings, Auths and Requests
InitProto ==
    /\ InitEngine
    /\ InitTunnel
    /\ auth_required \in BOOLEAN
    /\ clientsLeft = 1

NextProto ==
    \/ Engine
    \/ \E c \in ConnIds : Handler(c, Greetings, Auths, Requests, DialResults)

SpecProto == InitProto /\ [][NextProto]_vars

\* one client that authenticates and connects
InitRelay ==
    /\ InitEngine
    /\ InitTunnel
    /\ auth_required = TRUE
    /\ clientsLeft = 1

Connects(c) ==
    Negotiate(c, {<<5, 1, 2>>}, {<<1, 1, 117, 1, 112>>},
              {<<5, 1, 0, 1, 127, 0, 0, 1, 74, 56>>}, {"ok"})

\* its relay reads up to MaxChunk bytes at a time, and send() may transfer
\* fewer of them or raise
NextRelay ==
    \/ Engine
    \/ \E c \in ConnIds :
           \/ Connects(c)
           \/ Relay(c, MaxChunk, MaxRelayBytes, 0)
           \/ \E up, timeout \in BOOLEAN, n \in 1 .. MaxChunk :
                  RelaySendRaises(c, up, n, timeout, MaxRelayBytes)

SpecRelay == InitRelay /\ [][NextRelay]_vars

\* its relay moves single bytes, and the polls without data are counted up
\* to the inactivity deadline
NextIdle ==
    \/ Engine
    \/ \E c \in ConnIds : Connects(c) \/ Relay(c, 1, MaxBytes, InactivityTicks)

SpecIdle == InitRelay /\ [][NextIdle]_vars

\* ------------------------------------------------------------------ claims
\* the handler of c has entered its finally block, and once it has ended
\* its client socket is closed
Closed(c) ==
    /\ hpc[c] \in {"closing", "done"}
    /\ hpc[c] = "done" => csock[c] = "closed"

\* the position of the CONNECT request among the messages a client sends
ReqIndex == IF auth_required THEN 3 ELSE 2

\* C1: stats.close_connection is applied at most once to a connection
\* record, whatever the interleaving of stop() and the handler's finally
\* block, and exactly once when both have left _close_connection and the
\* record is gone from connections.
C1_ClosedExactlyOnce ==
    \A c \in ConnIds :
        /\ closes[c] <= 1
        /\ (rec[c].made /\ c \notin Elems(connections)
            /\ \A t \in Threads : ccpc[t] = "idle") => closes[c] = 1

\* no thread is between storing a record and add_connection, nor inside
\* _close_connection
Quiescent ==
    /\ \A c \in ConnIds : hpc[c] # "add"
    /\ \A t \in Threads : ccpc[t] = "idle"

\* C2: in every quiescent state stats.active_connections is the number of
\* records in connections whose active flag is true.
C2_ActiveMatchesRecords ==
    Quiescent =>
        stats.active_connections =
            Cardinality({c \in Elems(connections) : rec[c].active})

\* the handler of c has ended without dialling: its connection ended during
\* negotiation
EndedInNegotiation(c) == hpc[c] = "done" /\ ~dial[c].made

\* C3: every connection that ends during negotiation has incremented
\* stats.failed_connections by one (the other increments are the clients
\* the accept loop refused).
C3_NegotiationFailureCounted ==
    stats.failed_connections =
        rejected + Cardinality({c \in ConnIds : EndedInNegotiation(c)})

\* C4: an accepted client is refused (closed, counted in failed_connections,
\* no conn_id, no handler) exactly when connections holds max_connections
\* records or more at the accept; otherwise it gets the next conn_id and a
\* handler thread of its own.
C4_AcceptDecision ==
    [][clientsLeft' = clientsLeft - 1 =>
         IF Len(connections) >= max_connections
         THEN /\ rejected' = rejected + 1
              /\ stats'.failed_connections = stats.failed_connections + 1
              /\ connection_counter' = connection_counter
              /\ hpc' = hpc
         ELSE /\ rejected' = rejected
              /\ stats'.failed_connections = stats.failed_connections
              /\ connection_counter' = connection_counter + 1
              /\ hpc[connection_counter] = "unborn"
              /\ hpc' = [hpc EXCEPT ![connection_counter] = "handshake"]]_vars

C4_Witness ==
    /\ rejected = 1
    /\ stats.failed_connections = 1
    /\ connection_counter = 1
    /\ clientsLeft = 0

\* a greeting the engine can parse: version 5 and all NMETHODS method bytes
GreetingComplete(g) == Len(g) >= 3 /\ g[1] = 5 /\ Len(g) >= 2 + g[2]
Offered(g) == {g[i] : i \in 3 .. (2 + g[2])}

\* C5: for every offered method set the answer to the greeting is 05 02 iff
\* auth_required and 0x02 is offered, 05 00 iff not auth_required and 0x00
\* is offered, and 05 FF otherwise, after which the connection is closed
\* and nothing more is read from it.
C5_MethodSelection ==
    \A c \in ConnIds :
        (Len(rcvd[c]) >= 1 /\ GreetingComplete(rcvd[c][1])) =>
            LET offered == Offered(rcvd[c][1])
                accepted == IF auth_required THEN 2 \in offered
                            ELSE 0 \in offered
            IN  /\ Len(sent[c]) >= 1
                /\ sent[c][1] = IF ~accepted THEN <<5, 255>>
                                ELSE IF auth_required THEN <<5, 2>>
                                ELSE <<5, 0>>
                /\ ~accepted => /\ Closed(c)
                                /\ Len(rcvd[c]) = 1
                                /\ Len(sent[c]) = 1
                                /\ ~dial[c].made
                /\ (accepted /\ Len(rcvd[c]) = 1) => hpc[c] \in {"auth", "request"}

C5_Witness ==
    /\ auth_required
    /\ \E c \in ConnIds :
        /\ rcvd[c] = << <<5, 1, 0>> >>
        /\ sent[c] = << <<5, 255>> >>
        /\ hpc[c] = "done"
        /\ csock[c] = "closed"

\* an RFC 1929 message with all its fields: VER=1, ULEN, UNAME, PLEN, PASSWD
CredentialsComplete(m) ==
    /\ Len(m) >= 2
    /\ m[1] = 1
    /\ Len(m) >= 3 + m[2]
    /\ Len(m) >= 3 + m[2] + m[3 + m[2]]
    /\ \A i \in 3 .. (3 + m[2] + m[3 + m[2]]) : i = 3 + m[2] \/ m[i] < 128
CredentialsMatch(m) ==
    /\ SubSeq(m, 3, 2 + m[2]) = <<117>>
    /\ SubSeq(m, 4 + m[2], 3 + m[2] + m[3 + m[2]]) = <<112>>

\* C6: with auth_required a handler reads a request or dials only after a
\* sub-negotiation that carried both configured credentials; complete
\* credentials are answered 01 00 when both match and 01 01 otherwise, and
\* after 01 01 the connection is closed and nothing more is read.
C6_AuthBeforeRequest ==
    auth_required =>
        \A c \in ConnIds :
            /\ (hpc[c] \in {"request", "reply", "register", "add", "relay", "relay_io"}
                \/ Len(rcvd[c]) >= 3 \/ dial[c].made \/ tsock[c] # "none")
               => /\ Len(rcvd[c]) >= 2
                  /\ CredentialsComplete(rcvd[c][2])
                  /\ CredentialsMatch(rcvd[c][2])
                  /\ Len(sent[c]) >= 2
                  /\ sent[c][2] = <<1, 0>>
            /\ (Len(rcvd[c]) >= 2 /\ CredentialsComplete(rcvd[c][2])) =>
                  /\ Len(sent[c]) >= 2
                  /\ sent[c][2] = IF CredentialsMatch(rcvd[c][2]) THEN <<1, 0>>
                                  ELSE <<1, 1>>
                  /\ ~CredentialsMatch(rcvd[c][2]) =>
                        /\ Closed(c)
                        /\ Len(rcvd[c]) = 2
                        /\ Len(sent[c]) = 2
                        /\ ~dial[c].made

C6_Witness ==
    /\ auth_required
    /\ \E c \in ConnIds :
        /\ Len(rcvd[c]) = 2
        /\ rcvd[c][2] = <<1, 1, 117, 1, 113>>
        /\ sent[c] = << <<5, 2>>, <<1, 1>> >>
        /\ hpc[c] = "done"
        /\ csock[c] = "closed"

\* a request with its four header bytes and version 5
HeaderComplete(q) == Len(q) >= 4 /\ q[1] = 5

\* the handler of c has answered its request with 05 rep 00 01 and six zero
\* bytes and with nothing else, has dialled nothing and is closed
RejectedWith(c, rep) ==
    /\ Len(sent[c]) = ReqIndex
    /\ sent[c][ReqIndex] = <<5, rep, 0, 1, 0, 0, 0, 0, 0, 0>>
    /\ ~dial[c].made
    /\ tsock[c] = "none"
    /\ ~rec[c].made
    /\ Closed(c)

\* C7: a request (header complete, version 5) whose CMD is not CONNECT gets
\* exactly one reply 05 07 00 01 00 00 00 00 00 00, and a CONNECT request
\* whose ATYP is not IPV4, DOMAIN or IPV6 gets exactly one reply
\* 05 08 00 01 00 00 00 00 00 00; in both cases nothing is dialled and the
\* client is closed.
C7_RejectedBeforeDial ==
    \A c \in ConnIds :
        (Len(rcvd[c]) >= ReqIndex /\ HeaderComplete(rcvd[c][ReqIndex])) =>
            LET q == rcvd[c][ReqIndex] IN
            /\ q[2] # 1 => RejectedWith(c, 7)
            /\ (q[2] = 1 /\ q[4] \notin {1, 3, 4}) => RejectedWith(c, 8)

C7_Witness ==
    \E c \in ConnIds :
        /\ Len(rcvd[c]) = ReqIndex
        /\ rcvd[c][ReqIndex] = <<5, 3, 0, 1, 127, 0, 0, 1, 0, 80>>
        /\ sent[c][ReqIndex] = <<5, 7, 0, 1, 0, 0, 0, 0, 0, 0>>
        /\ hpc[c] = "done"
        /\ csock[c] = "closed"

\* C8: a dial that fails is answered once, with 05 rep 00 01 and six zero
\* bytes, rep = 04 for a name-resolution failure or a timeout, 05 for a
\* refused connection and 01 for any other failure; the client is closed
\* and no relay is entered.
C8_DialFailureReply ==
    \A c \in ConnIds :
        (dial[c].made /\ dial[c].result # "ok") =>
            LET rep == IF dial[c].result \in {"gaierror", "timeout"} THEN 4
                       ELSE IF dial[c].result = "refused" THEN 5
                       ELSE 1
            IN  /\ Len(sent[c]) = ReqIndex
                /\ sent[c][ReqIndex] = <<5, rep, 0, 1, 0, 0, 0, 0, 0, 0>>
                /\ Closed(c)
                /\ ~rec[c].made
                /\ c2t[c] = 0 /\ t2c[c] = 0

C8_Witness ==
    \E c \in ConnIds :
        /\ dial[c].made
        /\ dial[c].result = "refused"
        /\ sent[c][ReqIndex] = <<5, 5, 0, 1, 0, 0, 0, 0, 0, 0>>
        /\ hpc[c] = "done"
        /\ csock[c] = "closed"

\* C9: a CONNECT request with ATYP=DOMAIN and a zero-length name is
\* rejected: nothing is dialled and the connection is closed.
C9_EmptyDomainRejected ==
    \A c \in ConnIds :
        (/\ Len(rcvd[c]) >= ReqIndex
         /\ Len(rcvd[c][ReqIndex]) >= 5
         /\ SubSeq(rcvd[c][ReqIndex], 1, 5) = <<5, 1, 0, 3, 0>>) =>
            /\ ~dial[c].made
            /\ tsock[c] = "none"
            /\ Closed(c)

SuccessReply == <<5, 0, 0, 1, 0, 0, 0, 0, 0, 0>>

\* C10: the success reply 05 00 00 01 00 00 00 00 00 00 is in what a client
\* was sent only if the target connection of that client was established,
\* and a handler is in relay (or has relayed) only if the success reply was
\* sent before.
C10_ReplyThenRelay ==
    \A c \in ConnIds :
        /\ (\E i \in 1 .. Len(sent[c]) : sent[c][i] = SuccessReply) =>
              /\ dial[c].made
              /\ dial[c].result = "ok"
              /\ tsock[c] # "none"
        /\ (hpc[c] \in {"register", "add", "relay", "relay_io"}
            \/ rec[c].made \/ c2t[c] > 0 \/ t2c[c] > 0) =>
              /\ Len(sent[c]) = ReqIndex
              /\ sent[c][ReqIndex] = SuccessReply

C10_Witness ==
    \E c \in ConnIds :
        /\ hpc[c] = "relay_io"
        /\ c2t[c] = 1
        /\ sent[c][ReqIndex] = SuccessReply
        /\ dial[c].result = "ok"

\* C11: the bytes_sent and bytes_received of a record always equal the bytes
\* delivered to the target and to the client, also when a send transfers
\* fewer bytes than were read
C11_CountersMatchDelivered ==
    \A c \in ConnIds :
        rec[c].made =>
            /\ rec[c].bytes_sent = c2t[c]
            /\ rec[c].bytes_received = t2c[c]

\* C12: in each direction the bytes written to the destination are a prefix
\* of the bytes read from the source: none dropped, duplicated or reordered
C12_DeliveredIsPrefix ==
    \A c \in ConnIds :
        /\ tout[c] = Offsets(0, Len(tout[c]))
        /\ cout[c] = Offsets(0, Len(cout[c]))

\* C13: when a handler has ended, on whatever path, its client socket and
\* its target socket (if one was made) are closed
C13_SocketsClosedOnExit ==
    \A c \in ConnIds :
        hpc[c] \in {"done", "crashed"} =>
            /\ csock[c] = "closed"
            /\ tsock[c] # "open"

\* C14: the relay ends when neither socket has been readable for the
\* inactivity deadline: it never polls again after InactivityTicks polls in
\* a row without data
C14_RelayEndsAtDeadline ==
    \A c \in ConnIds : hpc[c] = "relay_io" => idle[c] < InactivityTicks

\* the accept thread exists
AcceptWorker == apc # "none"

\* C15: start() takes the status from Stopped to Starting and, when the
\* listener binds, to Running with the accept thread started; when the bind
\* fails the status is Failed and there is no accept thread; no other step
\* makes the status Failed
C15_StartTransitions ==
    [][/\ (status' = "starting" /\ status # "starting") => status = "stopped"
       /\ (status' = "running" /\ status # "running") =>
              /\ status = "starting"
              /\ server_socket' = "open"
              /\ running'
              /\ AcceptWorker'
       /\ (status' = "failed" /\ status # "failed") =>
              /\ startpc = "binding"
              /\ status = "starting"
              /\ server_socket' # "open"
              /\ ~AcceptWorker'
       /\ (startpc = "binding" /\ startpc' = "done") =>
              status' = IF server_socket' = "open" THEN "running" ELSE "failed"
      ]_vars

\* start() has returned failure: the bind raised
C15_Witness ==
    /\ startpc = "done"
    /\ status = "failed"
    /\ server_socket = "unbound"
    /\ ~AcceptWorker

\* is_healthy(), lines 582-586
is_healthy == status = "running" /\ running /\ server_socket # "none"

\* a call of stop() has been left, by return or by an exception
StopExited == stops >= 1 /\ spc \in {"idle", "crashed"}

\* a step of the thread that is in stop()
StopStep == stops' # stops \/ spc' # spc \/ ccpc'[StopT] # ccpc[StopT]

\* C16: after stop() the status is Stopped, is_healthy() is false, the
\* listener is closed and every record that was registered when stop()
\* listed them has been closed; a second stop() changes neither the state
\* nor the statistics
C16_StopIdempotent ==
    /\ [](StopExited =>
              /\ status = "stopped"
              /\ ~is_healthy
              /\ server_socket \in {"none", "closed"}
              /\ \A c \in stopKeys : closes[c] >= 1)
    /\ [][(stops' = 2 /\ StopStep) =>
              UNCHANGED <<status, running, server_socket, connections, rec,
                          stats>>]_vars

\* C17: when the probe of the engine create_tunnel has just started is not
\* healthy, the engine is stopped before create_tunnel returns failure: it
\* is not left listening
C17_EngineStoppedOnProbeFailure ==
    [][(tpc = "proxy_probe" /\ tpc' = "returned") =>
           /\ created' = "false"
           /\ server_socket' # "open"
           /\ ~running']_vars

\* some round of create_tunnel had both probes healthy
SomeRoundHealthy(rounds) ==
    \E i \in 1 .. Len(rounds) : rounds[i][1] /\ rounds[i][2]

\* C18: after the SSH child is spawned, create_tunnel ends FAILED with
\* last_error set when the child has exited after the wait; otherwise it
\* runs at most three probe rounds, ends RUNNING with failure_count 0 and
\* last_error cleared iff some round had both probes healthy, and ends
\* UNHEALTHY when all three rounds failed
C18_CreateOutcome ==
    [][/\ (tpc = "wait" /\ tpc' # "wait") =>
              IF child = "exited"
              THEN /\ tpc' = "returned"
                   /\ created' = "false"
                   /\ tunnel'.status = "failed"
                   /\ tunnel'.last_error # "none"
              ELSE tpc' = "rounds" /\ probes' = <<>>
       /\ Len(probes') <= 3
       /\ (tpc = "rounds" /\ tpc' = "returned") =>
              /\ SomeRoundHealthy(probes') <=>
                     /\ created' = "true"
                     /\ tunnel'.status = "running"
                     /\ tunnel'.failure_count = 0
                     /\ tunnel'.last_error = "none"
              /\ ~SomeRoundHealthy(probes') =>
                     /\ Len(probes') = 3
                     /\ tunnel'.status = "unhealthy"
      ]_vars

\* create_tunnel has returned after three rounds without a healthy one
C18_Witness ==
    /\ tpc = "returned"
    /\ Len(probes) = 3
    /\ ~SomeRoundHealthy(probes)
    /\ created = "false"
    /\ tunnel.status = "unhealthy"

\* C19: in every state a tunnel whose status is RUNNING has an engine whose
\* status is RUNNING and an SSH child that is alive
C19_RunningMeansBothUp ==
    tunnel.status = "running" =>
        /\ tunnel.socks5_status = "running"
        /\ tunnel.socks5_proxy
        /\ status = "running"
        /\ child = "alive"

\* the monitor has just taken the tunnel's turn in a tick
Ticked == tpc = "monitor" /\ <<tunnel, seen, tpc>>' # <<tunnel, seen, tpc>>

\* C20: in a monitor tick the pair (SSH probe, SOCKS5 probe) gives the new
\* statuses: both healthy, RUNNING; SSH unhealthy only, UNHEALTHY; SOCKS5
\* unhealthy only, RUNNING with the engine's status UNHEALTHY; both
\* unhealthy, FAILED
C20_TickStatuses ==
    [][Ticked =>
           LET ssh_healthy == seen'[1]
               socks5_healthy == seen'[2]
           IN  /\ (ssh_healthy /\ socks5_healthy) =>
                      tunnel'.status = "running"
               /\ (~ssh_healthy /\ socks5_healthy) =>
                      tunnel'.status = "unhealthy"
               /\ (ssh_healthy /\ ~socks5_healthy) =>
                      /\ tunnel'.status = "running"
                      /\ tunnel'.socks5_status = "unhealthy"
               /\ (~ssh_healthy /\ ~socks5_healthy) =>
                      tunnel'.status = "failed"]_vars

\* a tick has found the SSH probe healthy and the SOCKS5 probe not
C20_Witness ==
    /\ tpc = "monitor"
    /\ seen = <<TRUE, FALSE>>
    /\ tunnel.status = "running"
    /\ tunnel.socks5_status = "unhealthy"

\* C21: a turn of the monitor in which both probes are healthy leaves
\* failure_count at max(0, failure_count - 1), a turn in which a probe fails
\* raises it by exactly 1, and failure_count is never negative
C21_TickFailureCount ==
    /\ [](tunnel.failure_count >= 0)
    /\ [][Ticked =>
            tunnel'.failure_count =
                IF seen'[1] /\ seen'[2]
                THEN (IF tunnel.failure_count = 0
                      THEN 0 ELSE tunnel.failure_count - 1)
                ELSE tunnel.failure_count + 1]_vars

\* a healthy turn found failure_count at 0 and left it there
C21_Witness ==
    /\ tpc = "monitor"
    /\ seen = <<TRUE, TRUE>>
    /\ tunnel.failure_count = 0
    /\ tunnel.status = "running"
    /\ caller = "recover"

\* C22: when a tunnel's turn in a tick leaves failure_count at or above
\* max_failure_count, recovery is invoked in that turn, and it is never
\* invoked with failure_count below max_failure_count
C22_RecoverAtThreshold ==
    [][Ticked => (tpc' = "recover" <=>
                  tunnel'.failure_count >= max_failure_count)]_vars

\* the end of a tick of the monitor
TickEnded == tpc = "tick_end" /\ tpc' = "monitor"

\* C23: after a tick that found every tunnel healthy the monitor sleeps
\* health_check_interval and its count k of failing ticks in a row is 0;
\* after the k-th failing tick in a row, k >= 1, it sleeps
\* min(health_check_interval * 2^min(k, 5), 300) seconds: 60, 120, 240 and
\* from then on 300
C23_SleepBackoff ==
    [][TickEnded =>
          IF all_healthy'
          THEN consecutive_failures' = 0 /\ sleep_time' = 30
          ELSE /\ consecutive_failures' = consecutive_failures + 1
               /\ sleep_time' = CASE consecutive_failures' = 1 -> 60
                                  [] consecutive_failures' = 2 -> 120
                                  [] consecutive_failures' = 3 -> 240
                                  [] OTHER -> 300]_vars

\* the sixth failing tick in a row has ended: the exponent stays at 5
C23_Witness ==
    /\ tpc = "monitor"
    /\ ~all_healthy
    /\ consecutive_failures = 6
    /\ sleep_time = 300

\* stop_tunnel has finished: no child, no process handle, no engine object
\* and the engine it had does not run
StopFinished ==
    /\ tunnel.status = "stopped"
    /\ ~tunnel.process
    /\ ~tunnel.socks5_proxy
    /\ child # "alive"
    /\ ~running

KillChild ==
    /\ consecutive_failures = 0
    /\ tpc \in {"monitor", "tick_end"}
    /\ tunnel.status = "running"
    /\ tunnel.failure_count = 0
    /\ ChildExits

\* the steps of the thread in the manager's code when the engine binds, the
\* child is spawned and stays, the remote answers and every probe of a
\* living half succeeds
ManagerStep ==
    \/ StartTunnels
    \/ tpc = "proxy_start" /\ (StartBegin \/ StartBind(TRUE))
    \/ ProxyStarted
    \/ ProxyProbed(TRUE)
    \/ Spawn(TRUE)
    \/ CheckChild
    \/ ProbeRound(TRUE, TRUE)
    \/ Returned(FALSE)
    \/ MonitorTick(TRUE, TRUE)
    \/ TickEnd(TRUE)
    \/ RecoverBegin
    \/ StopChild
    \/ ProxyStop
    \/ ProxyStopped
    \/ StopReset
    \/ RecoverCreate

NextRecover ==
    \/ ManagerStep
    \/ KillChild
    \/ AcceptLoop
    \/ AcceptIdle

\* the monitor is a thread of its own (line 1265): it is scheduled again
\* and again, and so is the thread that starts the tunnels
SpecRecover == InitManager /\ [][NextRecover]_vars /\ WF_vars(ManagerStep)

\* the child of a RUNNING tunnel with failure_count 0 has been killed
Killed ==
    /\ child = "exited"
    /\ tunnel.status = "running"
    /\ tunnel.failure_count = 0

\* recovery has brought the tunnel back
Recovered ==
    /\ child = "alive"
    /\ tunnel.status = "running"
    /\ tunnel.failure_count = 0

C26_StopLeavesStopped ==
    tpc = "recover_create" =>
        /\ tunnel.status = "stopped"
        /\ ~tunnel.process
        /\ ~tunnel.pid
        /\ child # "alive"
        /\ ~tunnel.socks5_proxy
        /\ tunnel.socks5_status = "stopped"
        /\ ~tunnel.socks5_port
        /\ ~tunnel.start_time
        /\ ~pid_file

\* ------------------------------------------------------------- shutdown
\* _signal_handler, line 846, and stop_monitoring, line 1271: a signal
\* reaches the main thread, which clears the flag
Signal ==
    /\ mpc = "live"
    /\ monitoring' = FALSE
    /\ mpc' = "join"
    /\ UNCHANGED <<fleetVars, monVars, viewVars, pid_file, monitorVars, connVars, proxyVars, tunnel, child,
                   tpc, caller, attempt, probes, created, seen>>
    /\ Track

\* stop_monitoring, lines 1272-1273: join(timeout=5) returns when the
\* monitor's thread has ended or after five seconds, whatever that thread
\* is doing; stop_all_tunnels (line 1374) then calls stop_tunnel
JoinReturns ==
    /\ mpc = "join"
    /\ mpc' = "stop_child"
    /\ UNCHANGED <<fleetVars, monVars, viewVars, monitoring, pid_file, monitorVars, connVars, proxyVars,
                   tunnel, child, tpc, caller, attempt, probes, created, seen>>
    /\ Track

\* _monitor_loop, line 1280: the loop ends once the flag is cleared
MonitorExit ==
    /\ tpc = "monitor"
    /\ ~monitoring
    /\ tpc' = "done"
    /\ UNCHANGED <<fleetVars, monVars, viewVars, mainVars, pid_file, monitorVars, connVars, proxyVars,
                   tunnel, child, caller, attempt, probes, created, seen>>
    /\ Track

\* stop_tunnel, lines 1152-1161, in the main thread
MainStopChild ==
    /\ mpc = "stop_child"
    /\ child' = IF tunnel.process /\ child = "alive" THEN "exited" ELSE child
    /\ mpc' = IF tunnel.socks5_proxy THEN "stop_proxy" ELSE "stop_reset"
    /\ UNCHANGED <<fleetVars, monVars, viewVars, monitoring, pid_file, monitorVars, connVars, proxyVars,
                   tunnel, tpc, caller, attempt, probes, created, seen>>
    /\ Track

\* stop_tunnel, line 1162, in the main thread: stop() of the engine the
\* tunnel holds
MainProxyStop ==
    /\ mpc = "stop_proxy"
    /\ tunnel.socks5_proxy
    /\ stops = 0
    /\ StopBegin

\* stop_tunnel, lines 1162-1164, in the main thread: stop() has returned,
\* from the engine the tunnel holds or from the one it held at line 1161
MainProxyStopped ==
    /\ mpc = "stop_proxy"
    /\ ~tunnel.socks5_proxy \/ (stops >= 1 /\ spc = "idle")
    /\ tunnel' = [tunnel EXCEPT !.socks5_proxy = FALSE,
                                !.socks5_status = "stopped"]
    /\ mpc' = "stop_reset"
    /\ UNCHANGED <<fleetVars, monVars, viewVars, monitoring, pid_file, monitorVars, connVars, proxyVars,
                   child, tpc, caller, attempt, probes, created, seen>>
    /\ Track

\* stop_tunnel, lines 1166-1178, in the main thread: a child spawned since
\* line 1152 loses its handle and goes on running
MainStopReset ==
    /\ mpc = "stop_reset"
    /\ pid_file' = FALSE
    /\ tunnel' = [tunnel EXCEPT !.status = "stopped", !.process = FALSE,
                                !.pid = FALSE, !.start_time = FALSE,
                                !.socks5_port = FALSE,
                                !.socks5_health_checker = FALSE]
    /\ child' = IF child = "alive" THEN "alive" ELSE "none"
    /\ mpc' = "clear"
    /\ UNCHANGED <<fleetVars, monVars, viewVars, monitoring, monitorVars, connVars, proxyVars, tpc, caller,
                   attempt, probes, created, seen>>
    /\ Track

\* stop_all_tunnels, line 1381, and _signal_handler, line 848: the tunnels
\* are forgotten and the process exits; its threads, the monitor's (a daemon
\* thread, line 1265) and the engine's, end with it, the SSH child does not
MainExit ==
    /\ mpc = "clear"
    /\ mpc' = "exited"
    /\ tpc' = "exited"
    /\ apc' = "exited"
    /\ spc' = "exited"
    /\ UNCHANGED <<fleetVars, monVars, viewVars, monitoring, pid_file, monitorVars, connVars, status,
                   running, server_socket, startpc, stops, tunnel, child,
                   caller, attempt, probes, created, seen>>
    /\ Track

\* the manager, its monitor and a shutdown signal to the main thread
NextShutdown ==
    \/ NextTunnel
    \/ Signal
    \/ JoinReturns
    \/ MonitorExit
    \/ MainStopChild
    \/ MainProxyStop
    \/ MainProxyStopped
    \/ MainStopReset
    \/ MainExit

SpecShutdown == InitManager /\ [][NextShutdown]_vars

\* the main thread is in stop_all_tunnels or past it
Stopping == mpc \in {"stop_child", "stop_proxy", "stop_reset", "clear"}

\* C27: once the first stop_tunnel of the shutdown has begun, the monitor's
\* thread takes no further step of a probe, a status update or a recovery
C27_MonitorStopsFirst ==
    [][Stopping /\ mpc' # "exited" =>
           tpc' = tpc \/ tpc \in {"monitor", "tick_end"}]_vars

\* the shutdown signal has been handled or is being handled
Signalled == mpc \notin {"start", "live"}

\* C28: after a shutdown signal no engine is started and no SSH child is
\* spawned, not by a recovery in progress either, and when the handling of
\* the signal has finished no child and no engine runs and no PID file is
\* left
C28_NoNewWork ==
    /\ [][Signalled =>
              /\ ~(startpc = "idle" /\ startpc' = "binding")
              /\ ~(child # "alive" /\ child' = "alive")]_vars
    /\ [](mpc = "exited" => child # "alive" /\ ~running /\ ~pid_file)

\* the monitor's thread is inside the stop_tunnel or the create_tunnel of a
\* recovery
Recovering ==
    tpc \in {"stop_child", "stop_proxy", "stop_reset", "recover_create",
             "proxy_start", "proxy_probe", "spawn", "wait", "rounds"}

\* C29: at most one of create_tunnel, stop_tunnel and _recover_tunnel runs
\* on a tunnel at any time, whatever the interleaving of the monitor's
\* thread and the thread that handles the signal
C29_OneOperationAtATime ==
    ~(Recovering /\ mpc \in {"stop_child", "stop_proxy", "stop_reset"})

\* ---------------------------------------------------------- status view
\* what the status view leaves alone: everything but its own row
viewed == <<fleetVars, monVars, mainVars, pid_file, monitorVars, connVars, proxyVars, tunnel,
            child, tpc, caller, attempt, probes, created, seen>>

\* main, lines 1659-1662, and get_status_display, line 1399: the main
\* thread refreshes the status table and comes to the tunnel's row
ViewBegin ==
    /\ mpc = "live"
    /\ ~viewing
    /\ viewing' = TRUE
    /\ row' = <<>>
    /\ hist' = {Fields(tunnel)}
    /\ UNCHANGED viewed

\* get_status_display, lines 1408-1435: the next field of the tunnel is
\* read, each by an attribute access of its own and under no lock
ViewRead ==
    /\ viewing
    /\ Len(row) < Len(Fields(tunnel))
    /\ row' = Append(row, Fields(tunnel)[Len(row) + 1])
    /\ UNCHANGED <<viewed, viewing, hist>>

\* get_status_display, lines 1429-1436: the row is added to the table
ViewEnd ==
    /\ viewing
    /\ Len(row) = Len(Fields(tunnel))
    /\ viewing' = FALSE
    /\ UNCHANGED <<viewed, row, hist>>

\* the monitor at work on a tunnel while the main thread shows its status
NextView ==
    \/ NextRecover
    \/ ViewBegin
    \/ ViewRead
    \/ ViewEnd

SpecView == InitManager /\ [][NextView]_vars

\* C30: the status view changes nothing, and a row it shows is a snapshot:
\* the values of status, socks5_status, last_error, socks5_port, start_time
\* and failure_count that the tunnel had together at one moment of the view
C30_RowIsSnapshot ==
    (~viewing /\ row # <<>>) => row \in hist

\* C37: the record of every connection that reaches the relay holds the
\* destination of its CONNECT request: target_addr and target_port are the
\* address and the port parsed from the request
C37_RecordHoldsTarget ==
    \A c \in ConnIds :
        hpc[c] \in {"relay", "relay_io"} =>
            /\ rec[c].target_addr = dial[c].addr
            /\ rec[c].target_port = dial[c].port

\* the handler threads that serve a client: in negotiation, dial or relay
Serving_handlers ==
    {c \in ConnIds : hpc[c] \in {"handshake", "auth", "request", "reply",
                                 "register", "add", "relay", "relay_io"}}

\* C38: the clients an engine serves at the same time, handlers in
\* negotiation, dial or relay, are never more than max_connections
C38_ServedWithinLimit ==
    Cardinality(Serving_handlers) <= max_connections

\* stop() has been called and has returned or left by an exception, and the
\* accept worker and every handler thread of the engine have ended
WorkersEnded ==
    /\ stops >= 1
    /\ spc \in {"idle", "crashed"}
    /\ apc \in {"none", "exited"}
    /\ \A c \in ConnIds : hpc[c] \in {"unborn", "done", "crashed"}

\* C34: once the accept worker and every connection handler have ended
\* after stop(), connections is empty and active_connections is 0
C34_NothingLeftAfterStop ==
    WorkersEnded =>
        /\ connections = <<>>
        /\ stats.active_connections = 0

\* C32: the PID file exists only between the spawn of the SSH child and the
\* next stop_tunnel, and whenever it exists it holds the pid of the child
\* the tunnel owns at that moment, never that of a child that has exited
C32_PidFileNamesLiveChild ==
    pid_file => tunnel.pid /\ tunnel.process /\ child = "alive"

\* C33: the engine is started before the SSH child is spawned, stop_tunnel
\* terminates the child before it stops the engine, and no SSH child is
\* alive while the tunnel has no started engine
C33_EngineOutlivesChild ==
    /\ [](child = "alive" => tunnel.socks5_proxy /\ running)
    /\ [][(child # "alive" /\ child' = "alive") => running]_vars
    /\ [][(running /\ ~running') => child # "alive"]_vars

\* ------------------------------------------- engines with authentication
\* the manager whose socks5_auth_required (line 805) is either value
InitManagerAuth ==
    /\ InitEngine
    /\ InitTunnel
    /\ auth_required \in BOOLEAN
    /\ clientsLeft = 0

SpecAuth == InitManagerAuth /\ [][NextTunnel]_vars

\* C40: the handshake stage of the SOCKS5 probe passes against every
\* running, accepting engine, whatever its auth_required
C40_ProbePassesWithAuth ==
    Serving => check_socks5_handshake(auth_required)

\* with authentication required create_tunnel never reaches Running
AuthNeverRunning ==
    auth_required => tunnel.status # "running"

\* ------------------------------------------------------ the fleet's ports
\* __init__, line 790
base_socks5_port == 8880

\* parse_ports, lines 1601-1602 and 1615
default_ports == <<1080, 1081, 1082>>

\* the characters of a command-line argument: the digits are 0..9
Letter == 10
Minus == 11

ValueError == [ok |-> FALSE, value |-> 0]

RECURSIVE Decimal(_)
\* the value of a string of digits
Decimal(digits) ==
    IF digits = <<>> THEN 0
    ELSE Decimal(SubSeq(digits, 1, Len(digits) - 1)) * 10 + digits[Len(digits)]

\* int(arg), line 1607: the number a string denotes, or a ValueError
int(arg) ==
    LET negative == arg # <<>> /\ Head(arg) = Minus
        digits == IF negative THEN Tail(arg) ELSE arg
    IN  IF digits = <<>> \/ \E i \in 1..Len(digits) : digits[i] \notin 0..9
        THEN ValueError
        ELSE [ok |-> TRUE,
              value |-> IF negative THEN 0 - Decimal(digits)
                        ELSE Decimal(digits)]

RECURSIVE PortsOf(_)
\* parse_ports, lines 1604-1613: the arguments that are numbers in range
PortsOf(args) ==
    IF args = <<>> THEN <<>>
    ELSE LET port == int(Head(args))
         IN  IF port.ok /\ 1024 <= port.value /\ port.value <= 65535
             THEN <<port.value>> \o PortsOf(Tail(args))
             ELSE PortsOf(Tail(args))

\* parse_ports, lines 1599-1615
parse_ports(args) ==
    IF args = <<>> THEN default_ports
    ELSE IF PortsOf(args) = <<>> THEN default_ports
    ELSE PortsOf(args)

\* variant: the derived port is cut off at the highest TCP port
Socks5PortClamped(tunnel_port) ==
    IF base_socks5_port + (tunnel_port - 1080) > 65535 THEN 65535
    ELSE base_socks5_port + (tunnel_port - 1080)

\* create_socks5_proxy, line 935
Socks5Port(tunnel_port) == base_socks5_port + (tunnel_port - 1080)

\* the arguments of a run: ports at the edges of the accepted range and of
\* the range whose derived port is a TCP port, a word and a negative number
ArgStrings ==
    {<<1, 0, 2, 3>>, <<1, 0, 2, 4>>, <<1, 0, 8, 0>>, <<1, 0, 8, 1>>,
     <<5, 7, 7, 3, 5>>, <<5, 7, 7, 3, 6>>, <<6, 5, 5, 3, 5>>,
     <<6, 5, 5, 3, 6>>, <<Letter>>, <<Minus, 1, 0, 8, 0>>}

ArgLists == UNION {[1..n -> ArgStrings] : n \in 0..MaxArgs}

\* TunnelInfo.__init__ as far as the SOCKS5 port goes: none derived, none set
NoEndpoint == [derived |-> 0, socks5_port |-> 0]

\* main, line 1640: the ports of the command line
ParsePorts(args) ==
    /\ ports = <<>>
    /\ DOMAIN fleet = {}
    /\ ports' = parse_ports(args)
    /\ UNCHANGED <<fleet, monVars, supervisorVars, connVars, proxyVars>>

\* start_tunnels, lines 1189-1190: a TunnelInfo for every port of the list
RegisterTunnels ==
    /\ ports # <<>>
    /\ DOMAIN fleet = {}
    /\ fleet' = [port \in Elems(ports) |-> NoEndpoint]
    /\ UNCHANGED <<ports, monVars, supervisorVars, connVars, proxyVars>>

\* _start_tunnels_simple, lines 1236-1239: test_ssh_connectivity fails and
\* no tunnel is created
ConnectivityFails ==
    /\ ports # <<>>
    /\ DOMAIN fleet # {}
    /\ \A port \in DOMAIN fleet : fleet[port].derived = 0
    /\ ports' = <<>>
    /\ UNCHANGED <<fleet, monVars, supervisorVars, connVars, proxyVars>>

\* _start_tunnels_simple, lines 1241-1243, and create_socks5_proxy, lines
\* 934-955, for the next port of the list: the port is derived, and the
\* TunnelInfo is given it when start() succeeds; bind (line 236) takes
\* ports 0..65535 only
CreateProxy(started) ==
    /\ ports # <<>>
    /\ DOMAIN fleet # {}
    /\ LET tunnel_port == Head(ports)
           socks5_port == Socks5Port(tunnel_port)
       IN  /\ started => socks5_port \in 0..65535
           /\ fleet' = [fleet EXCEPT ![tunnel_port] =
                  [derived |-> socks5_port,
                   socks5_port |-> IF started THEN socks5_port
                                   ELSE @.socks5_port]]
    /\ ports' = Tail(ports)
    /\ UNCHANGED <<monVars, supervisorVars, connVars, proxyVars>>

NextPorts ==
    \/ \E args \in ArgLists : ParsePorts(args)
    \/ RegisterTunnels
    \/ ConnectivityFails
    \/ \E started \in BOOLEAN : CreateProxy(started)

SpecPorts == InitManager /\ [][NextPorts]_vars

\* C31: any two distinct tunnel ports of the fleet that were given a local
\* SOCKS5 port were given different ones
C31_DistinctSocks5Ports ==
    \A p \in DOMAIN fleet, q \in DOMAIN fleet :
        (p # q /\ fleet[p].socks5_port # 0 /\ fleet[q].socks5_port # 0) =>
            fleet[p].socks5_port # fleet[q].socks5_port

C31_Witness ==
    \E p \in DOMAIN fleet, q \in DOMAIN fleet :
        /\ p # q
        /\ fleet[p].socks5_port # 0
        /\ fleet[q].socks5_port # 0

\* C39: for every tunnel port p with 1024 <= p <= 65535 the local port
\* derived for its engine, base_socks5_port + (p - 1080), is a TCP port,
\* one of 1..65535
C39_DerivedPortValid ==
    \A p \in DOMAIN fleet :
        (1024 <= p /\ p <= 65535 /\ fleet[p].derived # 0) =>
            fleet[p].derived \in 1..65535

\* ------------------------------------------------- the monitor's threads
\* what start_monitoring and stop_monitoring leave alone
monitored == <<fleetVars, connVars, proxyVars, tunnel, child, tpc, caller,
               attempt, probes, created, seen, monitorVars, pid_file, mpc,
               viewVars, hist>>

\* the threads on _monitor_loop that have not returned from it
LiveMonitors == {t \in MonitorIds : mon[t] \notin {"unborn", "ended"}}

\* start_monitoring, lines 1259-1267: nothing while self.monitoring is set,
\* else the flag is set and a new thread is started on _monitor_loop
StartMonitoring ==
    /\ \E t \in MonitorIds : mon[t] = "unborn"
    /\ IF monitoring
       THEN UNCHANGED <<monitoring, monVars>>
       ELSE LET t == CHOOSE u \in MonitorIds :
                         /\ mon[u] = "unborn"
                         /\ \A v \in MonitorIds : mon[v] = "unborn" => u <= v
            IN  /\ monitoring' = TRUE
                /\ mon' = [mon EXCEPT ![t] = "loop"]
                /\ monitor_thread' = t
    /\ UNCHANGED monitored

\* stop_monitoring, lines 1269-1274: the flag is cleared and the thread
\* last started is joined for 5 seconds; a thread at its loop test ends
\* within the join, one in a tick or in its sleep of 10 to 300 seconds
\* outlives it
StopMonitoring ==
    /\ monitoring' = FALSE
    /\ mon' = [t \in MonitorIds |->
                  IF t = monitor_thread /\ mon[t] = "loop" THEN "ended"
                  ELSE mon[t]]
    /\ UNCHANGED <<monitor_thread, monitored>>

\* _monitor_loop, line 1280: the test of the loop
MonitorLoopTest(t) ==
    /\ mon[t] = "loop"
    /\ mon' = [mon EXCEPT ![t] = IF monitoring THEN "tick" ELSE "ended"]
    /\ UNCHANGED <<monitoring, monitor_thread, monitored>>

\* _monitor_loop, lines 1281-1337 and 1341-1342: the tick is over
MonitorTicked(t) ==
    /\ mon[t] = "tick"
    /\ mon' = [mon EXCEPT ![t] = "sleep"]
    /\ UNCHANGED <<monitoring, monitor_thread, monitored>>

\* _monitor_loop, lines 1339 and 1343: time.sleep returns
MonitorWakes(t) ==
    /\ mon[t] = "sleep"
    /\ mon' = [mon EXCEPT ![t] = "loop"]
    /\ UNCHANGED <<monitoring, monitor_thread, monitored>>

NextMonitor ==
    \/ StartMonitoring
    \/ StopMonitoring
    \/ \E t \in MonitorIds : MonitorLoopTest(t)
    \/ \E t \in MonitorIds : MonitorTicked(t)
    \/ \E t \in MonitorIds : MonitorWakes(t)

SpecMonitor == InitManager /\ [][NextMonitor]_vars

\* C36: over every sequence of start_monitoring and stop_monitoring calls
\* at most one thread on _monitor_loop is alive, and so at most one
\* executes ticks
C36_OneMonitor ==
    Cardinality(LiveMonitors) <= 1

\* two threads are inside a tick at the same time
TwoTicking ==
    Cardinality({t \in MonitorIds : mon[t] = "tick"}) >= 2

\* ------------------------------------------- exceptions in a monitor tick
\* _monitor_loop, lines 1281-1339: a statement of the tick raises (the
\* iteration over self.tunnels at line 1285, a probe, self.tunnels[port] of
\* _recover_tunnel at line 1347, the summary of lines 1325-1337) and control
\* passes to the handler at line 1341
TickRaises ==
    /\ tpc \in {"monitor", "recover", "tick_end"}
    /\ monitoring
    /\ tpc' = "except"
    /\ UNCHANGED <<fleetVars, monVars, viewVars, mainVars, pid_file, monitorVars, connVars,
                   proxyVars, tunnel, child, caller, attempt, probes, created,
                   seen>>
    /\ Track

\* variant: the exception leaves _monitor_loop and its thread ends
ExceptSleepReturns ==
    /\ tpc = "except"
    /\ tpc' = "exited"
    /\ UNCHANGED <<fleetVars, monVars, viewVars, mainVars, pid_file, monitorVars, connVars,
                   proxyVars, tunnel, child, caller, attempt, probes, created,
                   seen>>
    /\ Track

\* _monitor_loop, lines 1341-1343: the handler logs, sleeps 10 seconds and
\* the thread is back at the loop test of line 1280
ExceptSleep ==
    /\ tpc = "except"
    /\ sleep_time' = 10
    /\ tpc' = "monitor"
    /\ UNCHANGED <<fleetVars, monVars, viewVars, mainVars, pid_file, connVars, proxyVars,
                   tunnel, child, caller, attempt, probes, created, seen,
                   healthy_count, consecutive_failures, all_healthy>>
    /\ Track

NextExcept ==
    \/ NextRecover
    \/ TickRaises
    \/ ExceptSleep

\* the monitor's thread is scheduled again and again, in its handler too
SpecExcept ==
    InitManager /\ [][NextExcept]_vars /\ WF_vars(ManagerStep \/ ExceptSleep)

\* C35: an exception raised inside a monitor tick does not end the loop:
\* while monitoring is enabled the handler sleeps 10 seconds, leaves the
\* tunnel as it is, and the thread comes back to the head of the loop for
\* another tick
C35_TickExceptionContained ==
    /\ [][(tpc = "except" /\ tpc' # "except") =>
              /\ tpc' = "monitor"
              /\ sleep_time' = 10
              /\ UNCHANGED <<tunnel, monitoring, consecutive_failures>>]_vars
    /\ (tpc = "except" /\ monitoring) ~> (tpc = "monitor" /\ monitoring)

\* a tick has run after the handler's sleep
C35_Witness ==
    /\ sleep_time = 10
    /\ tpc \in {"tick_end", "recover"}
    /\ monitoring

====
